---- MODULE Spec2Model ----
(***************************************************************************)
(* A model of the Miniscript script decoder (src/miniscript/decode.rs) and *)
(* of the script-context validation family (src/miniscript/context.rs).    *)
(*                                                                         *)
(* Six specifications share the module:                                    *)
(*   Spec     the shift-reduce parser `parse`, one action per iteration of *)
(*            its loop, run on a bounded family of token streams;          *)
(*   SpecLive Spec with the loop of parse taking its next iteration        *)
(*            whenever it has one;                                         *)
(*   SpecCtx  the per-context check functions, applied to a bounded family *)
(*            of typed nodes;                                              *)
(*   SpecArg  the context functions that take no node, applied to bounded  *)
(*            families of witnesses and keys;                              *)
(*   SpecNoChecks  every function of the NoChecks context;                 *)
(*   SpecSign the signing of the 2-of-3 multisignature descriptor of       *)
(*            examples/sign_multisig.rs.                                   *)
(***************************************************************************)
EXTENDS Integers, Sequences, FiniteSets, TLC

VARIABLES
    ctx,        \* the ScriptContext type parameter Ctx of this run
    ext_on,     \* whether the Ext type parameter recognises extension leaves
    tokens,     \* TokenIter: the unread tokens in script order (next = last)
    non_term,   \* parse: the stack of pending NonTerm expectations
    term,       \* parse: the TerminalStack of completed Miniscript nodes
    status,     \* parse: "run", "ok", "err", "panic"; "idle" under SpecCtx
    ret,        \* parse: the value returned to the caller
    orig,       \* the tree whose encoding `tokens` was (NoNode for a free stream)
    consumed,   \* the tokens taken from TokenIter so far, in reading order
    round,      \* 0: first decoding; 1: decoding of the re-encoded result
    cnode,      \* SpecCtx: the Miniscript node handed to a context function
    cop,        \* SpecCtx: the context function last applied ("none" at first)
    cres,       \* SpecCtx: its result
    carg,       \* SpecArg: the witness or key handed to a context function
    sigs,       \* SpecSign: the satisfier, a map from public keys to signatures
    txin,       \* SpecSign: the transaction input handed to satisfy
    calls,      \* parse: the calls of TokenIter made by the last iteration
    pushed      \* TokenIter: the tokens put back by un_next and not read since

vars == <<ctx, ext_on, tokens, non_term, term, status, ret, orig, consumed,
          round, cnode, cop, cres, carg, sigs, txin, calls, pushed>>

-----------------------------------------------------------------------------
(* Bounds of the model. *)

\* the longest free token stream over SmallTokens handed to parse
MaxLen == 3
\* the largest number of nodes of a tree whose encoding is handed to parse
MaxNodes == 4
\* the largest key count of a Multi / MultiA node handed to a context function
MaxKeys == 21
\* the most keys of one multisig in a tree of three multisigs
MaxWide == 5
\* the keys of each multisig of a pair that is larger than a Legacy script
PairKeys == 8
\* children of the widest threshold of raw multisigs
MaxSubs == 6

-----------------------------------------------------------------------------
(* Program constants. *)

\* decode.rs:439, `if n > 20`
CmsMaxKeys == 20
\* limits.rs, imported at context.rs:17-21
MAX_PUBKEYS_PER_MULTISIG == 20
MAX_SCRIPT_ELEMENT_SIZE == 520
MAX_SCRIPT_SIZE == 10000
MAX_STANDARD_P2WSH_SCRIPT_SIZE == 3600
MAX_BLOCK_WEIGHT == 4000000
MAX_OPS_PER_SCRIPT == 201
MAX_SCRIPTSIG_SIZE == 1650
MAX_STACK_SIZE == 1000
MAX_STANDARD_P2WSH_STACK_ITEMS == 100

-----------------------------------------------------------------------------
(* Sequence helpers. *)

Reverse(s) == [i \in 1..Len(s) |-> s[Len(s) + 1 - i]]

RECURSIVE SumSeq(_)
SumSeq(s) == IF s = <<>> THEN 0 ELSE Head(s) + SumSeq(Tail(s))

RECURSIVE Concat(_)
Concat(ss) == IF ss = <<>> THEN <<>> ELSE Head(ss) \o Concat(Tail(ss))

-----------------------------------------------------------------------------
(* Keys.  A key is a number; its serialization form is fixed by the number. *)
(* Tk::Pubkey carries a bitcoin::PublicKey, which is compressed or          *)
(* uncompressed; x-only keys exist only for the generic Pk of context.rs.   *)

KeyC1 == 1
KeyU == 2
KeyX == 3
KeyC2 == 4
Keys == {KeyC1, KeyU, KeyX, KeyC2}

\* MiniscriptKey::is_uncompressed / is_x_only_key
is_uncompressed(pk) == pk = KeyU
is_x_only_key(pk) == pk = KeyX

-----------------------------------------------------------------------------
(* Script contexts and their fixed facts. *)

Contexts == {"Legacy", "Segwitv0", "Tap", "BareCtx", "NoChecks"}
ProductionContexts == {"Legacy", "Segwitv0", "Tap", "BareCtx"}

name_str(c) ==
    CASE c = "Legacy"   -> "Legacy/p2sh"
      [] c = "Segwitv0" -> "Segwitv0"
      [] c = "Tap"      -> "TapscriptCtx"
      [] c = "BareCtx"  -> "BareCtx"
      [] OTHER          -> "NochecksEcdsa"

sig_type(c) == IF c = "Tap" THEN "Schnorr" ELSE "Ecdsa"

-----------------------------------------------------------------------------
(* Results and errors: [e, a, b] with e the variant, a a number (a key, a   *)
(* count) and b a string (a context name, a message).                       *)

Err(e, a, b) == [e |-> e, a |-> a, b |-> b]
Ok == Err("Ok", 0, "")
IsOk(r) == r.e = "Ok"

-----------------------------------------------------------------------------
(* Tokens (lex::Token).  v is the payload: the number of Tk::Num, the key   *)
(* of Tk::Pubkey, an identifier of the hash or of the pushed bytes.         *)

Tk(t, v) == [t |-> t, v |-> v]
T0(t) == Tk(t, 0)
Num(n) == Tk("Num", n)
Pubkey(pk) == Tk("Pubkey", pk)

\* TokenIter::next on a non-empty stream: the token and the rest
Rd(toks, i) == toks[Len(toks) + 1 - i]
Drop(toks, i) == SubSeq(toks, 1, Len(toks) - i)
\* TokenIter::un_next
un_next(toks, x) == Append(toks, x)

-----------------------------------------------------------------------------
(* Typed nodes: Miniscript { node, ty, ext }.  One record shape for every   *)
(* Terminal variant: `node` the variant, `k` its number (threshold, time,   *)
(* hash or key identifier), `keys` its key list, `subs` its children.       *)

Ty(base, input, d, u) == [base |-> base, input |-> input, d |-> d, u |-> u]
TyErr == Ty("Err", "Any", FALSE, FALSE)

Ms(node, k, keys, subs, ty, cost) ==
    [node |-> node, k |-> k, keys |-> keys, subs |-> subs, ty |-> ty,
     pk_cost |-> cost]

NoNode == Ms("None", 0, <<>>, <<>>, TyErr, 0)

Wrappers == {"Alt", "Swap", "Check", "DupIf", "Verify", "NonZero",
             "ZeroNotEqual"}
Binaries == {"AndV", "AndB", "OrB", "OrD", "OrC", "OrI"}

-----------------------------------------------------------------------------
(* The correctness type system (types::Type::type_check): the base kind,    *)
(* the input modifier, dissatisfiable and unit, composed bottom-up from the *)
(* immediate children only.                                                 *)

NonZeroIn(i) == i \in {"OneNonZero", "AnyNonZero"}
OneIn(i) == i \in {"One", "OneNonZero"}

\* the input modifier of and_b / and_v
AndInput(l, r) ==
    CASE l = "Zero" /\ r = "Zero" -> "Zero"
      [] (l = "Zero" /\ r = "One") \/ (l = "One" /\ r = "Zero") -> "One"
      [] (l = "Zero" /\ r = "OneNonZero") \/ (l = "OneNonZero" /\ r = "Zero")
            -> "OneNonZero"
      [] NonZeroIn(l) \/ (l = "Zero" /\ r = "AnyNonZero") -> "AnyNonZero"
      [] OTHER -> "Any"

\* the input modifier of or_b
OrBInput(l, r) ==
    CASE l = "Zero" /\ r = "Zero" -> "Zero"
      [] (l = "Zero" /\ OneIn(r)) \/ (OneIn(l) /\ r = "Zero") -> "One"
      [] OTHER -> "Any"

\* the input modifier of or_d / or_c
OrDInput(l, r) ==
    CASE l = "Zero" /\ r = "Zero" -> "Zero"
      [] OneIn(l) /\ r = "Zero" -> "One"
      [] OTHER -> "Any"

AndOrInput(a, b, c) ==
    CASE a = "Zero" /\ b = "Zero" /\ c = "Zero" -> "Zero"
      [] a = "Zero" /\ OneIn(b) /\ b = c -> "One"
      [] OneIn(a) /\ b = "Zero" /\ c = "Zero" -> "One"
      [] OTHER -> "Any"

NumArgs(i) == CASE i = "Zero" -> 0 [] OneIn(i) -> 1 [] OTHER -> 2

ThreshInput(subs) ==
    LET n == SumSeq([i \in 1..Len(subs) |-> NumArgs(subs[i].ty.input)])
    IN  CASE n = 0 -> "Zero" [] n = 1 -> "One" [] OTHER -> "Any"

SameBKV(x, y) == x.base = y.base /\ x.base \in {"B", "K", "V"}

\* Type::type_check(&Terminal, return_none): the type, or TyErr
type_check(node, k, keys, subs) ==
    LET a == IF Len(subs) >= 1 THEN subs[1].ty ELSE TyErr
        b == IF Len(subs) >= 2 THEN subs[2].ty ELSE TyErr
        c == IF Len(subs) >= 3 THEN subs[3].ty ELSE TyErr
    IN
    CASE node = "True"  -> Ty("B", "Zero", FALSE, TRUE)
      [] node = "False" -> Ty("B", "Zero", TRUE, TRUE)
      [] node = "PkK"   -> Ty("K", "OneNonZero", TRUE, TRUE)
      [] node = "PkH"   -> Ty("K", "AnyNonZero", TRUE, TRUE)
      [] node \in {"After", "Older"} ->
            IF k = 0 THEN TyErr ELSE Ty("B", "Zero", FALSE, FALSE)
      [] node \in {"Sha256", "Hash256", "Ripemd160", "Hash160"} ->
            Ty("B", "OneNonZero", TRUE, TRUE)
      [] node = "Version"     -> Ty("B", "Zero", TRUE, TRUE)
      [] node = "OutputsPref" -> Ty("B", "Any", TRUE, TRUE)
      [] node = "Ext"         -> Ty("B", "Zero", TRUE, TRUE)
      [] node \in {"Multi", "MultiA"} ->
            IF k = 0 \/ k > Len(keys) THEN TyErr
            ELSE Ty("B", "AnyNonZero", TRUE, TRUE)
      [] node = "Alt" ->
            IF a.base = "B" THEN Ty("W", "Any", a.d, a.u) ELSE TyErr
      [] node = "Swap" ->
            IF a.base = "B" /\ OneIn(a.input) THEN Ty("W", "Any", a.d, a.u)
            ELSE TyErr
      [] node = "Check" ->
            IF a.base = "K" THEN Ty("B", a.input, a.d, TRUE) ELSE TyErr
      [] node = "DupIf" ->
            IF a.base = "V" /\ a.input = "Zero"
            THEN Ty("B", "OneNonZero", TRUE, TRUE) ELSE TyErr
      [] node = "Verify" ->
            IF a.base = "B" THEN Ty("V", a.input, FALSE, FALSE) ELSE TyErr
      [] node = "NonZero" ->
            IF a.base = "B" /\ NonZeroIn(a.input)
            THEN Ty("B", a.input, TRUE, a.u) ELSE TyErr
      [] node = "ZeroNotEqual" ->
            IF a.base = "B" THEN Ty("B", a.input, a.d, TRUE) ELSE TyErr
      [] node = "AndB" ->
            IF a.base = "B" /\ b.base = "W"
            THEN Ty("B", AndInput(a.input, b.input), a.d /\ b.d, TRUE)
            ELSE TyErr
      [] node = "AndV" ->
            IF a.base = "V" /\ b.base \in {"B", "K", "V"}
            THEN Ty(b.base, AndInput(a.input, b.input), FALSE, b.u)
            ELSE TyErr
      [] node = "OrB" ->
            IF a.base = "B" /\ b.base = "W" /\ a.d /\ b.d
            THEN Ty("B", OrBInput(a.input, b.input), TRUE, TRUE)
            ELSE TyErr
      [] node = "OrD" ->
            IF a.base = "B" /\ b.base = "B" /\ a.d /\ a.u
            THEN Ty("B", OrDInput(a.input, b.input), b.d, b.u)
            ELSE TyErr
      [] node = "OrC" ->
            IF a.base = "B" /\ b.base = "V" /\ a.d /\ a.u
            THEN Ty("V", OrDInput(a.input, b.input), FALSE, FALSE)
            ELSE TyErr
      [] node = "OrI" ->
            IF SameBKV(a, b)
            THEN Ty(a.base,
                    IF a.input = "Zero" /\ b.input = "Zero" THEN "One" ELSE "Any",
                    a.d \/ b.d, a.u /\ b.u)
            ELSE TyErr
      [] node = "AndOr" ->
            IF a.base = "B" /\ a.d /\ a.u /\ SameBKV(b, c)
            THEN Ty(b.base, AndOrInput(a.input, b.input, c.input), c.d,
                    b.u /\ c.u)
            ELSE TyErr
      [] node = "Thresh" ->
            IF /\ k >= 1 /\ k <= Len(subs)
               /\ \A i \in 1..Len(subs) :
                    /\ subs[i].ty.base = (IF i = 1 THEN "B" ELSE "W")
                    /\ subs[i].ty.d /\ subs[i].ty.u
            THEN Ty("B", ThreshInput(subs), TRUE, TRUE)
            ELSE TyErr
      [] OTHER -> TyErr

-----------------------------------------------------------------------------
(* The extra-property bundle (ExtData::type_check).  Only pk_cost, the      *)
(* serialized script size, is read by the code under study.                 *)

script_num_size(n) ==
    CASE n <= 16      -> 1
      [] n < 128      -> 2
      [] n < 32768    -> 3
      [] n < 8388608  -> 4
      [] OTHER        -> 5

\* whether the script of the node ends in an opcode with a VERIFY form
has_free_verify(m) ==
    m.node \in {"Check", "Multi", "Thresh", "Sha256", "Hash256", "Ripemd160",
                "Hash160", "Version", "OutputsPref"}

\* ExtData::type_check(&Terminal, return_none).pk_cost
pk_cost_of(c, node, k, keys, subs) ==
    LET n == Len(keys)
        s == SumSeq([i \in 1..Len(subs) |-> subs[i].pk_cost])
    IN
    CASE node \in {"True", "False"} -> 1
      [] node = "PkK" -> IF sig_type(c) = "Ecdsa" THEN 34 ELSE 33
      [] node = "PkH" -> 24
      [] node \in {"After", "Older"} -> script_num_size(k) + 1
      [] node \in {"Sha256", "Hash256"} -> 33 + 6
      [] node \in {"Ripemd160", "Hash160"} -> 21 + 6
      [] node = "Version" -> 4 + 1 + 1 + 4
      [] node = "OutputsPref" -> 13 + 2
      [] node = "Ext" -> 1
      [] node = "Multi" -> script_num_size(k) + script_num_size(n) + 34 * n + 1
      [] node = "MultiA" ->
            script_num_size(k) + script_num_size(n) + 33 * n + (n - 1) + 1
      [] node = "Alt" -> s + 2
      [] node = "Swap" -> s + 1
      [] node = "Check" -> s + 1
      [] node = "DupIf" -> s + 3
      [] node = "Verify" -> s + (IF has_free_verify(subs[1]) THEN 0 ELSE 1)
      [] node = "NonZero" -> s + 4
      [] node = "ZeroNotEqual" -> s + 1
      [] node = "AndV" -> s
      [] node \in {"AndB", "OrB"} -> s + 1
      [] node \in {"OrD", "OrI", "AndOr"} -> s + 3
      [] node = "OrC" -> s + 2
      [] node = "Thresh" -> s + Len(subs) + script_num_size(k)
      [] OTHER -> 0

-----------------------------------------------------------------------------
(* The context validation family (context.rs).                              *)

\* the first key of pks, in order, that satisfies bad(_); 0 if none
RECURSIVE FirstIdx(_, _, _)
FirstIdx(pks, bad(_), i) ==
    IF i > Len(pks) THEN 0
    ELSE IF bad(pks[i]) THEN i ELSE FirstIdx(pks, bad, i + 1)

XOnlyErr(c, pk) == Err("XOnlyKeysNotAllowed", pk, name_str(c))

\* Extension::segwit_ctx_checks of the extension leaf e
segwit_ctx_checks(e) ==
    IF e % 2 = 0 THEN Ok ELSE Err("ExtensionError", e, "segwit_ctx_checks")

\* a faulty Legacy check whose Multi arm does not look at the keys
Legacy_multi_keys_unchecked(ms) ==
    IF ms.pk_cost > MAX_SCRIPT_ELEMENT_SIZE
    THEN Err("MaxRedeemScriptSizeExceeded", 0, "")
    ELSE IF ms.node = "PkK" /\ is_x_only_key(ms.k)
    THEN XOnlyErr("Legacy", ms.k)
    ELSE IF ms.node = "Multi" /\ Len(ms.keys) > MAX_PUBKEYS_PER_MULTISIG
    THEN Err("CheckMultiSigLimitExceeded", 0, "")
    ELSE IF ms.node = "MultiA"
    THEN Err("MultiANotAllowed", 0, "")
    ELSE IF ms.node = "Ext"
    THEN Err("ExtensionError", 0, "No Extensions in Legacy context")
    ELSE Ok

\* a faulty Legacy check that rejects a script of exactly the ceiling
Legacy_size_ge(ms) ==
    IF ms.pk_cost >= MAX_SCRIPT_ELEMENT_SIZE
    THEN Err("MaxRedeemScriptSizeExceeded", 0, "")
    ELSE IF ms.node = "PkK" /\ is_x_only_key(ms.k)
    THEN XOnlyErr("Legacy", ms.k)
    ELSE IF ms.node = "Multi" /\ Len(ms.keys) > MAX_PUBKEYS_PER_MULTISIG
    THEN Err("CheckMultiSigLimitExceeded", 0, "")
    ELSE IF ms.node = "Multi" /\ FirstIdx(ms.keys, is_x_only_key, 1) # 0
    THEN XOnlyErr("Legacy", ms.keys[FirstIdx(ms.keys, is_x_only_key, 1)])
    ELSE IF ms.node = "MultiA"
    THEN Err("MultiANotAllowed", 0, "")
    ELSE IF ms.node = "Ext"
    THEN Err("ExtensionError", 0, "No Extensions in Legacy context")
    ELSE Ok

\* impl ScriptContext for Legacy
Legacy_check_global_consensus_validity(ms) ==
    IF ms.pk_cost > MAX_SCRIPT_ELEMENT_SIZE
    THEN Err("MaxRedeemScriptSizeExceeded", 0, "")
    ELSE IF ms.node = "PkK" /\ is_x_only_key(ms.k)
    THEN XOnlyErr("Legacy", ms.k)
    ELSE IF ms.node = "Multi" /\ Len(ms.keys) > MAX_PUBKEYS_PER_MULTISIG
    THEN Err("CheckMultiSigLimitExceeded", 0, "")
    ELSE IF ms.node = "Multi" /\ FirstIdx(ms.keys, is_x_only_key, 1) # 0
    THEN XOnlyErr("Legacy", ms.keys[FirstIdx(ms.keys, is_x_only_key, 1)])
    ELSE IF ms.node = "MultiA"
    THEN Err("MultiANotAllowed", 0, "")
    ELSE IF ms.node = "Ext"
    THEN Err("ExtensionError", 0, "No Extensions in Legacy context")
    ELSE Ok

\* the keys loop of Segwitv0's Multi arm: the first key that is uncompressed
\* or x-only decides
SegwitKeyBad(pk) == is_uncompressed(pk) \/ is_x_only_key(pk)
SegwitKeyErr(pk) ==
    IF is_uncompressed(pk) THEN Err("CompressedOnly", pk, "")
    ELSE IF is_x_only_key(pk) THEN XOnlyErr("Segwitv0", pk)
    ELSE Ok

\* a faulty Segwitv0 check that does not ask the extension
Segwitv0_ext_unchecked(ms) ==
    IF ms.pk_cost > MAX_SCRIPT_SIZE
    THEN Err("MaxWitnessScriptSizeExceeded", 0, "")
    ELSE CASE ms.node = "PkK" -> SegwitKeyErr(ms.k)
           [] ms.node = "Multi" ->
                IF Len(ms.keys) > MAX_PUBKEYS_PER_MULTISIG
                THEN Err("CheckMultiSigLimitExceeded", 0, "")
                ELSE IF FirstIdx(ms.keys, SegwitKeyBad, 1) # 0
                THEN SegwitKeyErr(ms.keys[FirstIdx(ms.keys, SegwitKeyBad, 1)])
                ELSE Ok
           [] ms.node = "MultiA" -> Err("MultiANotAllowed", 0, "")
           [] OTHER -> Ok

\* impl ScriptContext for Segwitv0
Segwitv0_check_global_consensus_validity(ms) ==
    IF ms.pk_cost > MAX_SCRIPT_SIZE
    THEN Err("MaxWitnessScriptSizeExceeded", 0, "")
    ELSE CASE ms.node = "PkK" -> SegwitKeyErr(ms.k)
           [] ms.node = "Multi" ->
                IF Len(ms.keys) > MAX_PUBKEYS_PER_MULTISIG
                THEN Err("CheckMultiSigLimitExceeded", 0, "")
                ELSE IF FirstIdx(ms.keys, SegwitKeyBad, 1) # 0
                THEN SegwitKeyErr(ms.keys[FirstIdx(ms.keys, SegwitKeyBad, 1)])
                ELSE Ok
           [] ms.node = "Ext" -> segwit_ctx_checks(ms.k)
           [] ms.node = "MultiA" -> Err("MultiANotAllowed", 0, "")
           [] OTHER -> Ok

Segwitv0_check_global_policy_validity(ms) ==
    IF ms.pk_cost > MAX_STANDARD_P2WSH_SCRIPT_SIZE
    THEN Err("MaxWitnessScriptSizeExceeded", 0, "")
    ELSE Ok

\* a faulty Tap check that lets Multi through
Tap_multi_allowed(ms) ==
    IF ms.pk_cost > MAX_BLOCK_WEIGHT
    THEN Err("MaxWitnessScriptSizeExceeded", 0, "")
    ELSE IF ms.node = "PkK" /\ is_uncompressed(ms.k)
    THEN Err("UncompressedKeysNotAllowed", 0, "")
    ELSE Ok

\* impl ScriptContext for Tap
Tap_check_global_consensus_validity(ms) ==
    IF ms.pk_cost > MAX_BLOCK_WEIGHT
    THEN Err("MaxWitnessScriptSizeExceeded", 0, "")
    ELSE CASE ms.node = "PkK" ->
                IF is_uncompressed(ms.k)
                THEN Err("UncompressedKeysNotAllowed", 0, "")
                ELSE Ok
           [] ms.node = "Multi" -> Err("TaprootMultiDisabled", 0, "")
           [] OTHER -> Ok

\* a faulty BareCtx check that lets MultiA through
BareCtx_multi_a_allowed(ms) ==
    IF ms.pk_cost > MAX_SCRIPT_SIZE
    THEN Err("MaxWitnessScriptSizeExceeded", 0, "")
    ELSE IF ms.node = "Ext"
    THEN Err("ExtensionError", 0, "No Extensions in Bare context")
    ELSE IF ms.node = "PkK" /\ is_x_only_key(ms.k)
    THEN XOnlyErr("BareCtx", ms.k)
    ELSE IF ms.node = "Multi" /\ Len(ms.keys) > MAX_PUBKEYS_PER_MULTISIG
    THEN Err("CheckMultiSigLimitExceeded", 0, "")
    ELSE IF ms.node = "Multi" /\ FirstIdx(ms.keys, is_x_only_key, 1) # 0
    THEN XOnlyErr("BareCtx", ms.keys[FirstIdx(ms.keys, is_x_only_key, 1)])
    ELSE Ok

\* impl ScriptContext for BareCtx
BareCtx_check_global_consensus_validity(ms) ==
    IF ms.pk_cost > MAX_SCRIPT_SIZE
    THEN Err("MaxWitnessScriptSizeExceeded", 0, "")
    ELSE IF ms.node = "Ext"
    THEN Err("ExtensionError", 0, "No Extensions in Bare context")
    ELSE CASE ms.node = "PkK" /\ is_x_only_key(ms.k) -> XOnlyErr("BareCtx", ms.k)
           [] ms.node = "Multi" ->
                IF Len(ms.keys) > MAX_PUBKEYS_PER_MULTISIG
                THEN Err("CheckMultiSigLimitExceeded", 0, "")
                ELSE IF FirstIdx(ms.keys, is_x_only_key, 1) # 0
                THEN XOnlyErr("BareCtx",
                              ms.keys[FirstIdx(ms.keys, is_x_only_key, 1)])
                ELSE Ok
           [] ms.node = "MultiA" -> Err("MultiANotAllowed", 0, "")
           [] OTHER -> Ok

\* Ctx::check_global_consensus_validity, dispatched on the context
check_global_consensus_validity(c, ms) ==
    CASE c = "Legacy"   -> Legacy_check_global_consensus_validity(ms)
      [] c = "Segwitv0" -> Segwitv0_check_global_consensus_validity(ms)
      [] c = "Tap"      -> Tap_check_global_consensus_validity(ms)
      [] c = "BareCtx"  -> BareCtx_check_global_consensus_validity(ms)
      [] OTHER          -> Ok

\* Ctx::check_global_policy_validity, dispatched on the context
check_global_policy_validity(c, ms) ==
    IF c = "Segwitv0" THEN Segwitv0_check_global_policy_validity(ms) ELSE Ok

\* ScriptContext::check_global_validity: consensus, then policy
check_global_validity(c, ms) ==
    IF ~IsOk(check_global_consensus_validity(c, ms))
    THEN check_global_consensus_validity(c, ms)
    ELSE check_global_policy_validity(c, ms)

\* ScriptContext::top_level_type_check
top_level_type_check(c, ms) ==
    IF ms.ty.base # "B" THEN Err("NonTopLevel", 0, "") ELSE Ok

\* BareCtx::other_top_level_checks: only c:pk_k, c:pk_h and a multi of at
\* most three keys are standard at the top of a bare script
BareCtx_other_top_level_checks(ms) ==
    CASE ms.node = "Check" ->
            IF ms.subs[1].node \in {"PkH", "PkK"} THEN Ok
            ELSE Err("NonStandardBareScript", 0, "")
      [] ms.node = "Multi" /\ Len(ms.keys) <= 3 -> Ok
      [] OTHER -> Err("NonStandardBareScript", 0, "")

\* the default of the trait accepts; only BareCtx overrides it
other_top_level_checks(c, ms) ==
    IF c = "BareCtx" THEN BareCtx_other_top_level_checks(ms) ELSE Ok

\* a length returned by a function of the context
Usize(n) == [e |-> "usize", a |-> n, b |-> ""]

\* Legacy::pk_len
Legacy_pk_len(pk) == IF is_uncompressed(pk) THEN 66 ELSE 34

\* BareCtx::pk_len
BareCtx_pk_len(pk) == IF is_uncompressed(pk) THEN 65 ELSE 33

\* a NoChecks that answers pk_len as BareCtx does
pk_len_no_panic(c, pk) ==
    CASE c = "Legacy"   -> Usize(Legacy_pk_len(pk))
      [] c = "Segwitv0" -> Usize(34)
      [] c = "Tap"      -> Usize(33)
      [] OTHER          -> Usize(BareCtx_pk_len(pk))

\* pk_len: the length of the serialized key; NoChecks panics
pk_len(c, pk) ==
    CASE c = "Legacy"   -> Usize(Legacy_pk_len(pk))
      [] c = "Segwitv0" -> Usize(34)
      [] c = "Tap"      -> Usize(33)
      [] c = "BareCtx"  -> Usize(BareCtx_pk_len(pk))
      [] c = "NoChecks" -> Err("Panic", 0, "pk_len")

\* the checks of the top level taken in the other order
top_level_checks_other_first(c, ms) ==
    LET r == other_top_level_checks(c, ms)
    IN  IF ~IsOk(r) THEN r ELSE top_level_type_check(c, ms)

\* top_level_checks: the type check, then the checks of the context
top_level_checks(c, ms) ==
    LET r == top_level_type_check(c, ms)
    IN  IF ~IsOk(r) THEN r ELSE other_top_level_checks(c, ms)

\* a faulty Legacy check that lets DupIf through
Legacy_dup_if_allowed(frag) ==
    CASE frag.node = "PkH" -> Err("MalleablePkH", 0, "")
      [] frag.node = "OrI" -> Err("MalleableOrI", 0, "")
      [] OTHER -> Ok

\* Legacy::check_terminal_non_malleable
Legacy_check_terminal_non_malleable(frag) ==
    CASE frag.node = "PkH" -> Err("MalleablePkH", 0, "")
      [] frag.node = "OrI" -> Err("MalleableOrI", 0, "")
      [] frag.node = "DupIf" -> Err("MalleableDupIf", 0, "")
      [] OTHER -> Ok

\* Ctx::check_terminal_non_malleable, dispatched on the context: Segwitv0,
\* Tap, BareCtx and NoChecks return Ok(())
check_terminal_non_malleable(c, frag) ==
    IF c = "Legacy" THEN Legacy_check_terminal_non_malleable(frag) ELSE Ok

\* Option<T>: None, or Some(x)
None == <<>>
Some(x) == <<x>>

\* the satisfaction-dependent part of ExtData: ops.op_count(), max_sat_size
\* (witness size, scriptSig size), stack_elem_count_sat and
\* exec_stack_elem_count_sat
ExtSat(ops, sat, stack, exec) ==
    [ops |-> ops, max_sat_size |-> sat, stack_elem_count_sat |-> stack,
     exec_stack_elem_count_sat |-> exec]

\* Ctx::max_satisfaction_size: the scriptSig size under Legacy and BareCtx,
\* the witness size under Segwitv0 and Tap; NoChecks panics, and has no case
max_satisfaction_size(c, ms) ==
    CASE c \in {"Legacy", "BareCtx"} ->
            IF ms.ext.max_sat_size = None THEN None
            ELSE Some(ms.ext.max_sat_size[1][2])
      [] c \in {"Segwitv0", "Tap"} ->
            IF ms.ext.max_sat_size = None THEN None
            ELSE Some(ms.ext.max_sat_size[1][1])

\* what a caller of max_satisfaction_size gets: the panic of NoChecks, or
\* the Option as a result
max_satisfaction_size_result(c, ms) ==
    IF c = "NoChecks" THEN Err("Panic", 0, "max_satisfaction_size")
    ELSE LET r == max_satisfaction_size(c, ms)
         IN  IF r = None THEN Err("None", 0, "") ELSE Usize(r[1])

\* Miniscript::max_satisfaction_witness_elements: the stack elements of a
\* satisfaction and the witness script
max_satisfaction_witness_elements(ms) ==
    IF ms.ext.stack_elem_count_sat = None THEN None
    ELSE Some(ms.ext.stack_elem_count_sat[1] + 1)

\* a faulty ops test that rejects a count of exactly the limit
OpCountCheck_ge(ms) ==
    IF ms.ext.ops = None THEN Err("MaxOpCountExceeded", 0, "")
    ELSE IF ms.ext.ops[1] >= MAX_OPS_PER_SCRIPT
    THEN Err("MaxOpCountExceeded", 0, "")
    ELSE Ok

\* the ops test shared by Legacy, Segwitv0 and BareCtx
OpCountCheck(ms) ==
    IF ms.ext.ops = None THEN Err("MaxOpCountExceeded", 0, "")
    ELSE IF ms.ext.ops[1] > MAX_OPS_PER_SCRIPT
    THEN Err("MaxOpCountExceeded", 0, "")
    ELSE Ok

Tap_check_local_consensus_validity(ms) ==
    LET s == ms.ext.exec_stack_elem_count_sat
        h == ms.ext.stack_elem_count_sat
    IN  IF s # None /\ h # None /\ s[1] + h[1] > MAX_STACK_SIZE
        THEN Err("StackSizeLimitExceeded", s[1] + h[1],
                 ToString(MAX_STACK_SIZE))
        ELSE Ok

\* Ctx::check_local_consensus_validity, dispatched on the context
check_local_consensus_validity(c, ms) ==
    CASE c \in {"Legacy", "Segwitv0", "BareCtx"} -> OpCountCheck(ms)
      [] c = "Tap" -> Tap_check_local_consensus_validity(ms)
      [] OTHER -> Ok

Legacy_check_local_policy_validity(ms) ==
    LET size == max_satisfaction_size("Legacy", ms) IN
    IF size = None THEN Err("ImpossibleSatisfaction", 0, "")
    ELSE IF size[1] > MAX_SCRIPTSIG_SIZE
    THEN Err("MaxScriptSigSizeExceeded", 0, "")
    ELSE Ok

Segwitv0_check_local_policy_validity(ms) ==
    LET items == max_satisfaction_witness_elements(ms) IN
    IF items = None THEN Err("ImpossibleSatisfaction", 0, "")
    ELSE IF items[1] > MAX_STANDARD_P2WSH_STACK_ITEMS
    THEN Err("MaxWitnessItemssExceeded", items[1],
             ToString(MAX_STANDARD_P2WSH_STACK_ITEMS))
    ELSE Ok

\* Ctx::check_local_policy_validity, dispatched on the context
check_local_policy_validity(c, ms) ==
    CASE c = "Legacy" -> Legacy_check_local_policy_validity(ms)
      [] c = "Segwitv0" -> Segwitv0_check_local_policy_validity(ms)
      [] OTHER -> Ok

\* the bytes one witness item takes in a scriptSig built by
\* witness_to_scriptsig: an empty item is OP_0; an item too long for a
\* script number is a data push, with a one-byte length up to 75 bytes, with
\* OP_PUSHDATA1 up to 255 and with OP_PUSHDATA2 above
push_size(len) ==
    CASE len = 0 -> 1
      [] len \in 5..75 -> len + 1
      [] len \in 76..255 -> len + 2
      [] len > 255 -> len + 3

\* the lengths of witness items: empty, a signature, and the lengths that
\* bring a scriptSig to MAX_SCRIPTSIG_SIZE and one byte past it
ItemLenSeq == <<0, 72, 74, 125>>
ItemLens == {ItemLenSeq[j] : j \in 1..Len(ItemLenSeq)}

\* witness_to_scriptsig(witness).len(), a witness being the sequence of the
\* lengths of its items; the sum is taken length by length
scriptsig_len(witness) ==
    SumSeq([j \in 1..Len(ItemLenSeq) |->
               push_size(ItemLenSeq[j])
               * Cardinality({i \in 1..Len(witness) :
                                witness[i] = ItemLenSeq[j]})])

\* Legacy::check_witness
Legacy_check_witness(witness) ==
    IF scriptsig_len(witness) > MAX_SCRIPTSIG_SIZE
    THEN Err("MaxScriptSigSizeExceeded", 0, "")
    ELSE Ok

\* a faulty Segwitv0 check whose ceiling test is `>=`
Segwitv0_check_witness_ge(witness) ==
    IF Len(witness) >= MAX_STANDARD_P2WSH_STACK_ITEMS
    THEN Err("MaxWitnessItemssExceeded", Len(witness),
             ToString(MAX_STANDARD_P2WSH_STACK_ITEMS))
    ELSE Ok

\* Segwitv0::check_witness
Segwitv0_check_witness(witness) ==
    IF Len(witness) > MAX_STANDARD_P2WSH_STACK_ITEMS
    THEN Err("MaxWitnessItemssExceeded", Len(witness),
             ToString(MAX_STANDARD_P2WSH_STACK_ITEMS))
    ELSE Ok

\* Tap::check_witness
Tap_check_witness(witness) ==
    IF Len(witness) > MAX_STACK_SIZE
    THEN Err("MaxWitnessItemssExceeded", Len(witness),
             ToString(MAX_STACK_SIZE))
    ELSE Ok

\* Ctx::check_witness, dispatched on the context: BareCtx keeps the default
\* of the trait and NoChecks its own, both Ok(())
check_witness(c, witness) ==
    CASE c = "Legacy" -> Legacy_check_witness(witness)
      [] c = "Segwitv0" -> Segwitv0_check_witness(witness)
      [] c = "Tap" -> Tap_check_witness(witness)
      [] OTHER -> Ok

\* a faulty check_local_validity that leaves the global policy check out
check_local_validity_no_policy(c, ms) ==
    IF ~IsOk(check_global_consensus_validity(c, ms))
    THEN check_global_consensus_validity(c, ms)
    ELSE IF ~IsOk(check_local_consensus_validity(c, ms))
    THEN check_local_consensus_validity(c, ms)
    ELSE check_local_policy_validity(c, ms)

\* ScriptContext::check_local_validity: the four checks in order, each
\* under `?`
check_local_validity(c, ms) ==
    IF ~IsOk(check_global_consensus_validity(c, ms))
    THEN check_global_consensus_validity(c, ms)
    ELSE IF ~IsOk(check_global_policy_validity(c, ms))
    THEN check_global_policy_validity(c, ms)
    ELSE IF ~IsOk(check_local_consensus_validity(c, ms))
    THEN check_local_consensus_validity(c, ms)
    ELSE check_local_policy_validity(c, ms)

-----------------------------------------------------------------------------
(* NonTerm, the pending expectations of parse (decode.rs:39-64).            *)

NT(nt, k, n) == [nt |-> nt, k |-> k, n |-> n]
N0(nt) == NT(nt, 0, 0)

-----------------------------------------------------------------------------
(* TerminalStack (decode.rs:153-226).  The result of one loop iteration is  *)
(* R(err, toks, nt, term): the error raised (Ok if none), the token stream  *)
(* left, the expectations pushed (in push order) and the term stack left.   *)

R(err, toks, nt, tm) ==
    [err |-> err, toks |-> toks, nt |-> nt, term |-> tm, back |-> <<>>]

\* an arm that ends in tokens.un_next(x) twice over
Unread_twice(r, x) ==
    [r EXCEPT !.toks = un_next(un_next(@, x), x), !.back = @ \o <<x, x>>]

\* `x => { tokens.un_next(x); .. }`: the arm with result r hands the token x
\* it read last back to TokenIter
Unread(r, x) == [r EXCEPT !.toks = un_next(@, x), !.back = Append(@, x)]

Panic == Err("Panic", 0, "unwrap on None")
TypeError(node) == Err("TypeCheck", 0, node)

\* the three steps every reduceN shares: correctness type, extra properties,
\* then Ctx::check_global_validity; the node is pushed only if all pass
\* a faulty reduction that asks the context before it looks at the type
TypedPush_context_first(c, tm, node, k, keys, subs) ==
    LET ty == type_check(node, k, keys, subs)
        ms == Ms(node, k, keys, subs, ty, pk_cost_of(c, node, k, keys, subs))
    IN  IF ~IsOk(check_global_validity(c, ms))
        THEN [err |-> check_global_validity(c, ms), term |-> tm]
        ELSE IF ty = TyErr THEN [err |-> TypeError(node), term |-> tm]
        ELSE [err |-> Ok, term |-> Append(tm, ms)]

TypedPush(c, tm, node, k, keys, subs) ==
    LET ty == type_check(node, k, keys, subs)
        ms == Ms(node, k, keys, subs, ty, pk_cost_of(c, node, k, keys, subs))
    IN  IF ty = TyErr THEN [err |-> TypeError(node), term |-> tm]
        ELSE IF ~IsOk(check_global_validity(c, ms))
        THEN [err |-> check_global_validity(c, ms), term |-> tm]
        ELSE [err |-> Ok, term |-> Append(tm, ms)]

\* TerminalStack::reduce0
\* a reduce0 that pushes the node without asking the context
reduce0_unchecked(c, tm, node, k, keys, subs) ==
    LET ty == type_check(node, k, keys, subs)
    IN  IF ty = TyErr THEN [err |-> TypeError(node), term |-> tm]
        ELSE [err |-> Ok,
              term |-> Append(tm, Ms(node, k, keys, subs, ty,
                                     pk_cost_of(c, node, k, keys, subs)))]

reduce0(c, tm, node, k, keys, subs) == TypedPush(c, tm, node, k, keys, subs)

\* a faulty reduce1 that wraps the top of the stack without popping it
reduce1_keeps_top(c, tm, node) ==
    IF Len(tm) < 1 THEN [err |-> Panic, term |-> tm]
    ELSE TypedPush(c, tm, node, 0, <<>>, <<tm[Len(tm)]>>)

\* TerminalStack::reduce1: wrap the top of the stack
reduce1(c, tm, node) ==
    IF Len(tm) < 1 THEN [err |-> Panic, term |-> tm]
    ELSE TypedPush(c, SubSeq(tm, 1, Len(tm) - 1), node, 0, <<>>,
                   <<tm[Len(tm)]>>)

\* a faulty reduce2 that hands its two children over in the other order
reduce2_swapped(c, tm, node) ==
    IF Len(tm) < 2 THEN [err |-> Panic, term |-> tm]
    ELSE TypedPush(c, SubSeq(tm, 1, Len(tm) - 2), node, 0, <<>>,
                   <<tm[Len(tm) - 1], tm[Len(tm)]>>)

\* TerminalStack::reduce2: left is popped first, right second
reduce2(c, tm, node) ==
    IF Len(tm) < 2 THEN [err |-> Panic, term |-> tm]
    ELSE LET left == tm[Len(tm)]
             right == tm[Len(tm) - 1]
         IN  TypedPush(c, SubSeq(tm, 1, Len(tm) - 2), node, 0, <<>>,
                       <<left, right>>)

\* a ternary reduction that keeps the three terms in the order popped
reduceTern_abc(c, tm) ==
    IF Len(tm) < 3 THEN [err |-> Panic, term |-> tm]
    ELSE LET a == tm[Len(tm)]
             b == tm[Len(tm) - 1]
             cc == tm[Len(tm) - 2]
             subs == <<a, b, cc>>
             ty == type_check("AndOr", 0, <<>>, subs)
         IN  IF ty = TyErr THEN [err |-> TypeError("AndOr"), term |-> tm]
             ELSE [err |-> Ok,
                   term |-> Append(SubSeq(tm, 1, Len(tm) - 3),
                                   Ms("AndOr", 0, <<>>, subs, ty,
                                      pk_cost_of(c, "AndOr", 0, <<>>, subs)))]

\* NonTerm::Tern (decode.rs:499-514): AndOr(a, c, b), typed, pushed without
\* a call of Ctx::check_global_validity
reduceTern(c, tm) ==
    IF Len(tm) < 3 THEN [err |-> Panic, term |-> tm]
    ELSE LET a == tm[Len(tm)]
             b == tm[Len(tm) - 1]
             cc == tm[Len(tm) - 2]
             subs == <<a, cc, b>>
             ty == type_check("AndOr", 0, <<>>, subs)
         IN  IF ty = TyErr THEN [err |-> TypeError("AndOr"), term |-> tm]
             ELSE [err |-> Ok,
                   term |-> Append(SubSeq(tm, 1, Len(tm) - 3),
                                   Ms("AndOr", 0, <<>>, subs, ty,
                                      pk_cost_of(c, "AndOr", 0, <<>>, subs)))]

-----------------------------------------------------------------------------
(* match_token!: each pattern token is taken with TokenIter::next; a token  *)
(* that fits no arm is Error::Unexpected, an exhausted stream is            *)
(* Error::UnexpectedStart.                                                  *)

Has(toks, i, t) == Len(toks) >= i /\ Rd(toks, i).t = t

\* a match_token! that carries on when next() returns None
Fail_none_ok(toks, tm, i) ==
    IF Len(toks) < i
    THEN R(Ok, <<>>, <<>>, tm)
    ELSE R(Err("Unexpected", Rd(toks, i).v, Rd(toks, i).t), Drop(toks, i),
           <<>>, tm)

\* no arm fits the i-th token read in this iteration (the i-1 before it fit)
Fail(toks, tm, i) ==
    IF Len(toks) < i
    THEN R(Err("UnexpectedStart", 0, ""), <<>>, <<>>, tm)
    ELSE R(Err("Unexpected", Rd(toks, i).v, Rd(toks, i).t), Drop(toks, i),
           <<>>, tm)

\* a pattern token fits: same variant, and same payload unless the pattern
\* binds it (payload -1)
Fits(tok, pat) == tok.t = pat.t /\ (pat.v = -1 \/ tok.v = pat.v)

\* the first j in 1..Len(pat) whose token, read as number i + j, does not
\* fit pat[j]; 0 if the whole pattern fits
RECURSIVE Mismatch(_, _, _, _)
Mismatch(toks, i, pat, j) ==
    IF j > Len(pat) THEN 0
    ELSE IF Len(toks) >= i + j /\ Fits(Rd(toks, i + j), pat[j])
    THEN Mismatch(toks, i, pat, j + 1)
    ELSE j

\* i tokens are read; the arm then takes the tokens of pat, pushes the
\* expectations nt and reduces the leaf
Leaf(c, toks, tm, i, pat, nt, node, k) ==
    LET j == Mismatch(toks, i, pat, 1)
    IN  IF j # 0 THEN Fail(toks, tm, i + j)
        ELSE LET r == reduce0(c, tm, node, k, <<>>, <<>>)
             IN  R(r.err, Drop(toks, i + Len(pat)), nt, r.term)

\* pushes only
Push(toks, tm, i, nt) == R(Ok, Drop(toks, i), nt, tm)

SizeCheck == <<T0("Verify"), T0("Equal"), Num(32), T0("Size")>>
Cat6 == [i \in 1..6 |-> T0("Cat")]
PrefTail ==
    <<T0("Sub"), Num(4), T0("Depth"), T0("Hash256"), T0("Cat"), T0("Swap"),
      Tk("Push", -1)>> \o Cat6
VerTail == <<T0("Sub"), Num(12), T0("Depth")>>

\* hash arms that leave the Verify expectation in place over PkH
HashArms_pkh_verified(c, toks, tm, i, nt) ==
    CASE Has(toks, i + 1, "Hash32") ->
            CASE Has(toks, i + 2, "Sha256") ->
                    Leaf(c, toks, tm, i + 2, SizeCheck, nt, "Sha256",
                         Rd(toks, i + 1).v)
              [] Has(toks, i + 2, "Hash256") ->
                    Leaf(c, toks, tm, i + 2, SizeCheck, nt, "Hash256",
                         Rd(toks, i + 1).v)
              [] OTHER -> Fail(toks, tm, i + 2)
      [] Has(toks, i + 1, "Hash20") ->
            CASE Has(toks, i + 2, "Ripemd160") ->
                    Leaf(c, toks, tm, i + 2, SizeCheck, nt, "Ripemd160",
                         Rd(toks, i + 1).v)
              [] Has(toks, i + 2, "Hash160") ->
                    IF nt # <<>> /\ Has(toks, i + 3, "Dup")
                    THEN Leaf(c, toks, tm, i + 3, <<>>, nt, "PkH",
                              Rd(toks, i + 1).v)
                    ELSE Leaf(c, toks, tm, i + 2, SizeCheck, nt, "Hash160",
                              Rd(toks, i + 1).v)
              [] OTHER -> Fail(toks, tm, i + 2)
      [] Has(toks, i + 1, "PickPush4") ->
            Leaf(c, toks, tm, i + 1, VerTail, nt, "Version", Rd(toks, i + 1).v)
      [] Has(toks, i + 1, "Pick") ->
            Leaf(c, toks, tm, i + 1, PrefTail, nt, "OutputsPref",
                 IF Len(toks) >= i + 8 THEN Rd(toks, i + 8).v ELSE 0)
      [] Has(toks, i + 1, "Num") ->
            Push(toks, tm, i + 1,
                 nt \o <<NT("ThreshW", Rd(toks, i + 1).v, 0)>>)
      [] OTHER -> Fail(toks, tm, i + 1)

\* the arms below `Tk::Equal` (decode.rs:349-407) and below
\* `Tk::Verify, Tk::Equal` (decode.rs:266-332); i tokens are read so far and
\* nt holds NonTerm::Verify in the second case
HashArms(c, toks, tm, i, nt) ==
    CASE Has(toks, i + 1, "Hash32") ->
            CASE Has(toks, i + 2, "Sha256") ->
                    Leaf(c, toks, tm, i + 2, SizeCheck, nt, "Sha256",
                         Rd(toks, i + 1).v)
              [] Has(toks, i + 2, "Hash256") ->
                    Leaf(c, toks, tm, i + 2, SizeCheck, nt, "Hash256",
                         Rd(toks, i + 1).v)
              [] OTHER -> Fail(toks, tm, i + 2)
      [] Has(toks, i + 1, "Hash20") ->
            CASE Has(toks, i + 2, "Ripemd160") ->
                    Leaf(c, toks, tm, i + 2, SizeCheck, nt, "Ripemd160",
                         Rd(toks, i + 1).v)
              [] Has(toks, i + 2, "Hash160") ->
                    IF nt # <<>> /\ Has(toks, i + 3, "Dup")
                    THEN Leaf(c, toks, tm, i + 3, <<>>, <<>>, "PkH",
                              Rd(toks, i + 1).v)
                    ELSE Leaf(c, toks, tm, i + 2, SizeCheck, nt, "Hash160",
                              Rd(toks, i + 1).v)
              [] OTHER -> Fail(toks, tm, i + 2)
      [] Has(toks, i + 1, "PickPush4") ->
            Leaf(c, toks, tm, i + 1, VerTail, nt, "Version", Rd(toks, i + 1).v)
      [] Has(toks, i + 1, "Pick") ->
            Leaf(c, toks, tm, i + 1, PrefTail, nt, "OutputsPref",
                 IF Len(toks) >= i + 8 THEN Rd(toks, i + 8).v ELSE 0)
      [] Has(toks, i + 1, "Num") ->
            Push(toks, tm, i + 1,
                 nt \o <<NT("ThreshW", Rd(toks, i + 1).v, 0)>>)
      [] OTHER -> Fail(toks, tm, i + 1)

\* a faulty multisig arm whose ceiling test is `n >= 20`
MultiArm_ge(c, toks, tm) ==
    LET n == Rd(toks, 2).v
        keyPat == [i \in 1..n |-> Tk("Pubkey", -1)]
        j == Mismatch(toks, 2, keyPat \o <<Tk("Num", -1)>>, 1)
        read == [i \in 1..n |-> Rd(toks, 2 + i).v]
        k == Rd(toks, n + 3).v
    IN  IF n >= CmsMaxKeys
        THEN R(Err("CmsTooManyKeys", n, ""), Drop(toks, 2), <<>>, tm)
        ELSE IF j # 0 THEN Fail(toks, tm, 2 + j)
        ELSE LET r == reduce0(c, tm, "Multi", k, Reverse(read), <<>>)
             IN  R(r.err, Drop(toks, n + 3), <<>>, r.term)

\* a multisig arm that keeps the keys in the order it read them
MultiArm_as_read(c, toks, tm) ==
    LET n == Rd(toks, 2).v
        keyPat == [i \in 1..n |-> Tk("Pubkey", -1)]
        j == Mismatch(toks, 2, keyPat \o <<Tk("Num", -1)>>, 1)
        read == [i \in 1..n |-> Rd(toks, 2 + i).v]
        k == Rd(toks, n + 3).v
    IN  IF n > CmsMaxKeys
        THEN R(Err("CmsTooManyKeys", n, ""), Drop(toks, 2), <<>>, tm)
        ELSE IF j # 0 THEN Fail(toks, tm, 2 + j)
        ELSE LET r == reduce0(c, tm, "Multi", k, read, <<>>)
             IN  R(r.err, Drop(toks, n + 3), <<>>, r.term)

\* `Tk::CheckMultiSig, Tk::Num(n)` (decode.rs:437-455); both are read
MultiArm(c, toks, tm) ==
    LET n == Rd(toks, 2).v
        keyPat == [i \in 1..n |-> Tk("Pubkey", -1)]
        j == Mismatch(toks, 2, keyPat \o <<Tk("Num", -1)>>, 1)
        read == [i \in 1..n |-> Rd(toks, 2 + i).v]
        k == Rd(toks, n + 3).v
    IN  IF n > CmsMaxKeys
        THEN R(Err("CmsTooManyKeys", n, ""), Drop(toks, 2), <<>>, tm)
        ELSE IF j # 0 THEN Fail(toks, tm, 2 + j)
        ELSE LET r == reduce0(c, tm, "Multi", k, Reverse(read), <<>>)
             IN  R(r.err, Drop(toks, n + 3), <<>>, r.term)

\* a prefix that expects the and_v and swap prefixes twice over
FullExpr_twice ==
    <<N0("MaybeAndV"), N0("MaybeSwap"), N0("MaybeAndV"), N0("MaybeSwap"),
      N0("Expression")>>

FullExpr == <<N0("MaybeAndV"), N0("MaybeSwap"), N0("Expression")>>

\* Some(NonTerm::Expression) (decode.rs:253-457)
Expression(c, toks, tm) ==
    CASE Has(toks, 1, "Pubkey") ->
            Leaf(c, toks, tm, 1, <<>>, <<>>, "PkK", Rd(toks, 1).v)
      [] Has(toks, 1, "CheckSig") ->
            Push(toks, tm, 1, <<N0("Check"), N0("Expression")>>)
      [] Has(toks, 1, "Verify") ->
            IF Has(toks, 2, "Equal")
            THEN HashArms(c, toks, tm, 2, <<N0("Verify")>>)
            ELSE IF Len(toks) < 2 THEN Fail(toks, tm, 2)
            ELSE \* x => un_next(x)
                 Unread(Push(toks, tm, 2, <<N0("Verify"), N0("Expression")>>),
                        Rd(toks, 2))
      [] Has(toks, 1, "ZeroNotEqual") ->
            Push(toks, tm, 1, <<N0("ZeroNotEqual"), N0("Expression")>>)
      [] Has(toks, 1, "CheckSequenceVerify") ->
            Leaf(c, toks, tm, 1, <<Tk("Num", -1)>>, <<>>, "Older",
                 IF Len(toks) >= 2 THEN Rd(toks, 2).v ELSE 0)
      [] Has(toks, 1, "CheckLockTimeVerify") ->
            Leaf(c, toks, tm, 1, <<Tk("Num", -1)>>, <<>>, "After",
                 IF Len(toks) >= 2 THEN Rd(toks, 2).v ELSE 0)
      [] Has(toks, 1, "Equal") -> HashArms(c, toks, tm, 1, <<>>)
      [] Has(toks, 1, "FromAltStack") ->
            Push(toks, tm, 1, <<N0("Alt")>> \o FullExpr)
      [] Has(toks, 1, "Num") /\ Rd(toks, 1).v = 0 ->
            Leaf(c, toks, tm, 1, <<>>, <<>>, "False", 0)
      [] Has(toks, 1, "Num") /\ Rd(toks, 1).v = 1 ->
            Leaf(c, toks, tm, 1, <<>>, <<>>, "True", 0)
      [] Has(toks, 1, "EndIf") ->
            Push(toks, tm, 1, <<N0("EndIf")>> \o FullExpr)
      [] Has(toks, 1, "BoolAnd") ->
            Push(toks, tm, 1, <<N0("AndB"), N0("Expression"), N0("MaybeSwap"),
                                N0("Expression")>>)
      [] Has(toks, 1, "BoolOr") ->
            Push(toks, tm, 1, <<N0("OrB"), N0("Expression"), N0("MaybeSwap"),
                                N0("Expression")>>)
      [] Has(toks, 1, "CheckMultiSig") ->
            IF Has(toks, 2, "Num") THEN MultiArm(c, toks, tm)
            ELSE Fail(toks, tm, 2)
      [] OTHER -> Fail(toks, tm, 1)

\* an is_and_v that does not stop at TOALTSTACK
is_and_v_past_alt(toks) ==
    ~(\/ toks = <<>>
      \/ Rd(toks, 1).t \in {"If", "NotIf", "Else"})

\* is_and_v (decode.rs:591-596)
is_and_v(toks) ==
    ~(\/ toks = <<>>
      \/ Rd(toks, 1).t \in {"If", "NotIf", "Else", "ToAltStack"})

\* a MaybeAndV that takes every token for the end of the sequence
MaybeAndV_never(c, toks, tm) == Push(toks, tm, 0, <<>>)

\* Some(NonTerm::MaybeAndV)
MaybeAndV(c, toks, tm) ==
    IF is_and_v(toks)
    THEN Push(toks, tm, 0, <<N0("AndV"), N0("Expression")>>)
    ELSE Push(toks, tm, 0, <<>>)

\* a MaybeSwap that wraps once and does not look for a further SWAP
MaybeSwap_once(c, toks, tm) ==
    IF Has(toks, 1, "Swap")
    THEN LET r == reduce1(c, tm, "Swap")
         IN  R(r.err, Drop(toks, 1), <<>>, r.term)
    ELSE Push(toks, tm, 0, <<>>)

\* Some(NonTerm::MaybeSwap)
MaybeSwap(c, toks, tm) ==
    IF Has(toks, 1, "Swap")
    THEN LET r == reduce1(c, tm, "Swap")
         IN  R(r.err, Drop(toks, 1), <<N0("MaybeSwap")>>, r.term)
    ELSE Push(toks, tm, 0, <<>>)

\* the arms that only reduce
Reduce1Arm(c, toks, tm, node) ==
    LET r == reduce1(c, tm, node) IN R(r.err, toks, <<>>, r.term)
Reduce2Arm(c, toks, tm, node) ==
    LET r == reduce2(c, tm, node) IN R(r.err, toks, <<>>, r.term)

\* Some(NonTerm::Alt)
Alt(c, toks, tm) ==
    IF Has(toks, 1, "ToAltStack")
    THEN Reduce1Arm(c, Drop(toks, 1), tm, "Alt")
    ELSE Fail(toks, tm, 1)

\* an AndV arm that forgets the MaybeAndV it is to push with itself
AndV_alone(c, toks, tm) ==
    IF is_and_v(toks)
    THEN Push(toks, tm, 0, <<N0("AndV")>>)
    ELSE Reduce2Arm(c, toks, tm, "AndV")

\* an AndV arm that reduces the two terms it has before it reads on
AndV_eager(c, toks, tm) ==
    LET r == Reduce2Arm(c, toks, tm, "AndV")
    IN  IF r.err = Ok /\ is_and_v(toks)
        THEN Push(toks, r.term, 0, <<N0("AndV"), N0("Expression")>>)
        ELSE r

\* Some(NonTerm::AndV)
AndV(c, toks, tm) ==
    IF is_and_v(toks)
    THEN Push(toks, tm, 0, <<N0("AndV"), N0("MaybeAndV")>>)
    ELSE Reduce2Arm(c, toks, tm, "AndV")

\* Some(NonTerm::Tern)
Tern(c, toks, tm) ==
    LET r == reduceTern(c, tm) IN R(r.err, toks, <<>>, r.term)

\* a faulty ThreshW that counts one child more than it asked for
ThreshW_one_more(c, toks, tm, k, n) ==
    IF toks = <<>> THEN Fail(toks, tm, 1)
    ELSE IF Has(toks, 1, "Add")
    THEN Push(toks, tm, 1, <<NT("ThreshW", k, n + 1), N0("MaybeSwap"),
                             N0("Expression")>>)
    ELSE Unread(Push(toks, tm, 1, <<NT("ThreshE", k, n + 2), N0("MaybeSwap"),
                                    N0("Expression")>>),
                Rd(toks, 1))

\* Some(NonTerm::ThreshW { n, k })
ThreshW(c, toks, tm, k, n) ==
    IF toks = <<>> THEN Fail(toks, tm, 1)
    ELSE IF Has(toks, 1, "Add")
    THEN Push(toks, tm, 1, <<NT("ThreshW", k, n + 1), N0("MaybeSwap"),
                             N0("Expression")>>)
    ELSE \* x => un_next(x)
         Unread(Push(toks, tm, 1, <<NT("ThreshE", k, n + 1), N0("MaybeSwap"),
                                    N0("Expression")>>),
                Rd(toks, 1))

\* a faulty ThreshE that takes the n terms in stack order
ThreshE_stack_order(c, toks, tm, k, n) ==
    IF Len(tm) < n THEN R(Panic, toks, <<>>, tm)
    ELSE LET subs == [i \in 1..n |-> tm[Len(tm) - n + i]]
             r == reduce0(c, SubSeq(tm, 1, Len(tm) - n), "Thresh", k, <<>>,
                          subs)
         IN  R(r.err, toks, <<>>, r.term)

\* Some(NonTerm::ThreshE { n, k }): the n popped terms, in pop order
ThreshE(c, toks, tm, k, n) ==
    IF Len(tm) < n THEN R(Panic, toks, <<>>, tm)
    ELSE LET subs == [i \in 1..n |-> tm[Len(tm) + 1 - i]]
             r == reduce0(c, SubSeq(tm, 1, Len(tm) - n), "Thresh", k, <<>>,
                          subs)
         IN  R(r.err, toks, <<>>, r.term)

\* Some(NonTerm::EndIf)
EndIf(c, toks, tm) ==
    CASE Has(toks, 1, "Else") ->
            Push(toks, tm, 1, <<N0("EndIfElse")>> \o FullExpr)
      [] Has(toks, 1, "If") ->
            CASE Has(toks, 2, "Dup") -> Push(toks, tm, 2, <<N0("DupIf")>>)
              [] Has(toks, 2, "ZeroNotEqual") ->
                    IF Has(toks, 3, "Size")
                    THEN Push(toks, tm, 3, <<N0("NonZero")>>)
                    ELSE Fail(toks, tm, 3)
              [] OTHER -> Fail(toks, tm, 2)
      [] Has(toks, 1, "NotIf") -> Push(toks, tm, 1, <<N0("EndIfNotIf")>>)
      [] OTHER -> Fail(toks, tm, 1)

\* an EndIfNotIf that takes IFDUP for any other token
EndIfNotIf_always_or_c(c, toks, tm) ==
    IF toks = <<>> THEN Fail(toks, tm, 1)
    ELSE Push(toks, tm, 0, <<N0("OrC"), N0("Expression")>>)

\* Some(NonTerm::EndIfNotIf)
EndIfNotIf(c, toks, tm) ==
    IF toks = <<>> THEN Fail(toks, tm, 1)
    ELSE IF Has(toks, 1, "IfDup")
    THEN Push(toks, tm, 1, <<N0("OrD"), N0("Expression")>>)
    ELSE \* x => un_next(x)
         Unread(Push(toks, tm, 1, <<N0("OrC"), N0("Expression")>>),
                Rd(toks, 1))

\* Some(NonTerm::EndIfElse)
EndIfElse(c, toks, tm) ==
    CASE Has(toks, 1, "If") -> Reduce2Arm(c, Drop(toks, 1), tm, "OrI")
      [] Has(toks, 1, "NotIf") ->
            Push(toks, tm, 1, <<N0("Tern"), N0("Expression")>>)
      [] OTHER -> Fail(toks, tm, 1)

\* Ext::from_token_iter: the extension leaf at the front of the stream, if
\* the Ext parameter recognises one; the stream is left as it was otherwise
ExtLeafAt(on, toks) == on /\ Has(toks, 1, "Push")

-----------------------------------------------------------------------------
(* The script encoding of a tree, variant by variant as documented on       *)
(* Terminal (decode.rs:69-150), as the token stream its script lexes to.    *)

SizeIs32 == <<T0("Size"), Num(32), T0("Equal"), T0("Verify")>>

RECURSIVE Encode(_)
Encode(m) ==
    LET E(i) == Encode(m.subs[i]) IN
    CASE m.node = "True"  -> <<Num(1)>>
      [] m.node = "False" -> <<Num(0)>>
      [] m.node = "PkK"   -> <<Pubkey(m.k)>>
      [] m.node = "PkH"   ->
            <<T0("Dup"), T0("Hash160"), Tk("Hash20", m.k), T0("Equal"),
              T0("Verify")>>
      [] m.node = "After" -> <<Num(m.k), T0("CheckLockTimeVerify")>>
      [] m.node = "Older" -> <<Num(m.k), T0("CheckSequenceVerify")>>
      [] m.node = "Sha256" ->
            SizeIs32 \o <<T0("Sha256"), Tk("Hash32", m.k), T0("Equal")>>
      [] m.node = "Hash256" ->
            SizeIs32 \o <<T0("Hash256"), Tk("Hash32", m.k), T0("Equal")>>
      [] m.node = "Ripemd160" ->
            SizeIs32 \o <<T0("Ripemd160"), Tk("Hash20", m.k), T0("Equal")>>
      [] m.node = "Hash160" ->
            SizeIs32 \o <<T0("Hash160"), Tk("Hash20", m.k), T0("Equal")>>
      [] m.node = "Version" ->
            <<T0("Depth"), Num(12), T0("Sub"), Tk("PickPush4", m.k),
              T0("Equal")>>
      [] m.node = "OutputsPref" ->
            Cat6 \o <<Tk("Push", m.k), T0("Swap"), T0("Cat"), T0("Hash256"),
                      T0("Depth"), Num(10), T0("Sub"), T0("Pick"), T0("Equal"),
                      T0("Verify")>>
      [] m.node = "Alt"   -> <<T0("ToAltStack")>> \o E(1) \o <<T0("FromAltStack")>>
      [] m.node = "Swap"  -> <<T0("Swap")>> \o E(1)
      [] m.node = "Check" -> E(1) \o <<T0("CheckSig")>>
      [] m.node = "DupIf" -> <<T0("Dup"), T0("If")>> \o E(1) \o <<T0("EndIf")>>
      [] m.node = "Verify" -> E(1) \o <<T0("Verify")>>
      [] m.node = "NonZero" ->
            <<T0("Size"), T0("ZeroNotEqual"), T0("If")>> \o E(1)
            \o <<T0("EndIf")>>
      [] m.node = "ZeroNotEqual" -> E(1) \o <<T0("ZeroNotEqual")>>
      [] m.node = "AndV" -> E(1) \o E(2)
      [] m.node = "AndB" -> E(1) \o E(2) \o <<T0("BoolAnd")>>
      [] m.node = "AndOr" ->
            E(1) \o <<T0("NotIf")>> \o E(3) \o <<T0("Else")>> \o E(2)
            \o <<T0("EndIf")>>
      [] m.node = "OrB" -> E(1) \o E(2) \o <<T0("BoolOr")>>
      [] m.node = "OrD" ->
            E(1) \o <<T0("IfDup"), T0("NotIf")>> \o E(2) \o <<T0("EndIf")>>
      [] m.node = "OrC" -> E(1) \o <<T0("NotIf")>> \o E(2) \o <<T0("EndIf")>>
      [] m.node = "OrI" ->
            <<T0("If")>> \o E(1) \o <<T0("Else")>> \o E(2) \o <<T0("EndIf")>>
      [] m.node = "Thresh" ->
            E(1)
            \o Concat([i \in 1..(Len(m.subs) - 1) |->
                          Encode(m.subs[i + 1]) \o <<T0("Add")>>])
            \o <<Num(m.k), T0("Equal")>>
      [] m.node = "Multi" ->
            <<Num(m.k)>> \o [i \in 1..Len(m.keys) |-> Pubkey(m.keys[i])]
            \o <<Num(Len(m.keys)), T0("CheckMultiSig")>>
      [] m.node = "Ext" -> <<Tk("Push", m.k)>>
      [] OTHER -> <<>>

\* equality by fragment structure: the variant, its payload and its children
RECURSIVE SameFragment(_, _)
SameFragment(x, y) ==
    /\ x.node = y.node /\ x.k = y.k /\ x.keys = y.keys
    /\ Len(x.subs) = Len(y.subs)
    /\ \A i \in 1..Len(x.subs) : SameFragment(x.subs[i], y.subs[i])

-----------------------------------------------------------------------------
(* Trees built outside the decoder (Miniscript::from_ast): typed, and       *)
(* accepted by the context at every node.                                   *)

\* Miniscript::from_ast: the typed node, or NoNode if a check rejects it
from_ast(c, node, k, keys, subs) ==
    LET ty == type_check(node, k, keys, subs)
        ms == Ms(node, k, keys, subs, ty, pk_cost_of(c, node, k, keys, subs))
    IN  IF ty = TyErr \/ ~IsOk(check_global_validity(c, ms)) THEN NoNode
        ELSE ms

-----------------------------------------------------------------------------
(* The inputs of parse.                                                     *)

\* the tokens of the free streams
SmallTokens ==
    {Pubkey(KeyC1), Pubkey(KeyU), Num(0), Num(1), Num(2), T0("CheckSig"),
     T0("Verify"), T0("Swap"), T0("EndIf"), T0("If"), T0("Dup"),
     T0("CheckMultiSig"), Tk("Push", 2), T0("Equal")}

FreeStreams == UNION {[1..n -> SmallTokens] : n \in 0..MaxLen}

\* every leaf kind, as a tree of its own
AllLeaves(c) ==
    {from_ast(c, l, 0, <<>>, <<>>) : l \in {"True", "False"}}
    \cup {from_ast(c, l, 1, <<>>, <<>>) :
            l \in {"PkH", "After", "Older", "Sha256", "Hash256", "Ripemd160",
                   "Hash160", "Version", "OutputsPref"}}
    \cup {from_ast(c, "PkK", pk, <<>>, <<>>) : pk \in {KeyC1, KeyU}}
    \cup {from_ast(c, "Multi", 1, <<KeyC1>>, <<>>),
          from_ast(c, "Multi", 2, <<KeyC1, KeyC2>>, <<>>),
          from_ast(c, "Multi", 1, <<KeyC2, KeyU>>, <<>>)}

\* the leaves the larger trees are built from
LeafNodes(c) ==
    {from_ast(c, "True", 0, <<>>, <<>>), from_ast(c, "False", 0, <<>>, <<>>),
     from_ast(c, "PkK", KeyC1, <<>>, <<>>), from_ast(c, "Older", 1, <<>>, <<>>),
     from_ast(c, "Sha256", 1, <<>>, <<>>),
     from_ast(c, "Multi", 1, <<KeyC1, KeyC2>>, <<>>)}

WrapOf(c, S) == {from_ast(c, w, 0, <<>>, <<x>>) : w \in Wrappers, x \in S}
BinOf(c, S, U) ==
    {from_ast(c, b, 0, <<>>, <<x, y>>) : b \in Binaries, x \in S, y \in U}
TernOf(c, S, U, V) ==
    {from_ast(c, "AndOr", 0, <<>>, <<x, y, z>>) : x \in S, y \in U, z \in V}
ThreshOf(c, S, U) ==
    {from_ast(c, "Thresh", k, <<>>, <<x, y>>) : k \in 1..2, x \in S, y \in U}

\* the well-typed, context-valid trees of exactly n nodes
RECURSIVE TreesOf(_, _)
TreesOf(c, n) ==
    (CASE n = 1 -> LeafNodes(c)
       [] n = 2 -> WrapOf(c, TreesOf(c, 1))
       [] OTHER ->
            WrapOf(c, TreesOf(c, n - 1))
            \cup UNION {BinOf(c, TreesOf(c, i), TreesOf(c, n - 1 - i))
                        \cup ThreshOf(c, TreesOf(c, i), TreesOf(c, n - 1 - i))
                        : i \in 1..(n - 2)}
            \cup UNION {TernOf(c, TreesOf(c, p[1]), TreesOf(c, p[2]),
                               TreesOf(c, n - 1 - p[1] - p[2]))
                        : p \in {q \in (1..(n - 3)) \X (1..(n - 3)) :
                                    q[1] + q[2] <= n - 2}})
    \ {NoNode}

Trees(c) ==
    (UNION {TreesOf(c, n) : n \in 1..MaxNodes}
     \cup AllLeaves(c) \cup WrapOf(c, AllLeaves(c))) \ {NoNode}

-----------------------------------------------------------------------------
(* parse (decode.rs:230-589).                                               *)

NoRet == [tag |-> "None", err |-> Ok, tree |-> NoNode]
RetOk(ms) == [tag |-> "Ok", err |-> Ok, tree |-> ms]
RetErr(e) == [tag |-> "Err", err |-> e, tree |-> NoNode]

\* the three public keys of the example, all compressed
public_keys == <<"key 1", "key 2", "key 3">>

\* no signature under a key of the satisfier
NoSig == 0

\* HashMap::new(): the satisfier that holds no signature
NoSigs == [i \in 1..Len(public_keys) |-> NoSig]

\* an item of a witness stack or a push of a scriptSig: its role, the key
\* of a signature, and its length in bytes
Item(t, pk, len) == [t |-> t, pk |-> pk, len |-> len]

\* the input of the transaction before any call of satisfy
original_txin == [script_sig |-> <<>>, witness |-> <<>>]

NoArg == [kind |-> "none", v |-> <<>>]
WitnessArg(w) == [kind |-> "witness", v |-> w]
KeyArg(pk) == [kind |-> "key", v |-> pk]

CtxIdle ==
    /\ cnode = NoNode /\ cop = "none" /\ cres = Ok /\ carg = NoArg
    /\ sigs = NoSigs /\ txin = original_txin

\* the state on entry to the loop: the three expectations pushed at
\* decode.rs:236-238, no completed term
ParseEntry(c, e, toks, tree) ==
    /\ ctx = c
    /\ ext_on = e
    /\ tokens = toks
    /\ non_term = FullExpr
    /\ term = <<>>
    /\ status = "run"
    /\ ret = NoRet
    /\ orig = tree
    /\ consumed = <<>>
    /\ round = 0
    /\ calls = <<>> /\ pushed = <<>>
    /\ CtxIdle

HasPush(toks) == \E i \in 1..Len(toks) : toks[i].t = "Push"

\* n copies of the key pk
KeyRun(pk, n) == [i \in 1..n |-> pk]

\* raw-multisig scripts around the key-count ceiling: the count n written
\* in the script, over m keys actually present
MultisigStreams ==
    {<<Num(1)>> \o [i \in 1..m |-> Pubkey(KeyC1)]
                \o <<Num(n), T0("CheckMultiSig")>> :
        n \in (CmsMaxKeys - 1)..MaxKeys, m \in 0..MaxKeys}

\* the raw-multisig script k <key_1> ... <key_n> n CHECKMULTISIG
MultisigScript(k, keys) ==
    <<Num(k)>> \o [i \in 1..Len(keys) |-> Pubkey(keys[i])]
               \o <<Num(Len(keys)), T0("CheckMultiSig")>>

\* raw-multisig scripts over keys that differ, whole, with one of the keys
\* or the threshold replaced by another token, and with the threshold
\* missing
MultisigKeyStreams ==
    LET scripts == {MultisigScript(k, keys) :
                      k \in 1..2,
                      keys \in UNION {[1..n -> {KeyC1, KeyC2, KeyU}] :
                                        n \in 1..MaxLen}}
        bad(st, i) == [st EXCEPT ![i] = IF @.t = "Num" THEN Pubkey(KeyC1)
                                       ELSE Num(1)]
    IN  scripts
        \cup UNION {{bad(st, i) : i \in 1..(Len(st) - 2)} : st \in scripts}
        \cup {SubSeq(st, 2, Len(st)) : st \in scripts}

\* the tail of an or_c or or_d script from NOTIF on: the stream ends where
\* the first child is due
OrTailStreams == {<<T0("NotIf"), Num(b), T0("EndIf")>> : b \in 0..1}

\* the scripts <pre> <op> <hash> EQUAL[VERIFY], with every pairing of a
\* prefix, a hash opcode and a hash of 20 or 32 bytes
HashOps == {"Hash160", "Ripemd160", "Sha256", "Hash256"}
HashPushes == {Tk("Hash20", 1), Tk("Hash32", 1)}
HashScript(pre, op, h, ver) ==
    pre \o <<T0(op), h, T0("Equal")>>
        \o (IF ver THEN <<T0("Verify")>> ELSE <<>>)
HashStreams ==
    {HashScript(pre, op, h, ver) :
       pre \in {<<T0("Dup")>>, SizeIs32}, op \in HashOps, h \in HashPushes,
       ver \in BOOLEAN}

\* andor(multi, multi, multi): trees whose script is larger than that of
\* each child, built without a script context
WideTrees ==
    {from_ast("NoChecks", "AndOr", 0, <<>>,
              <<from_ast("NoChecks", "Multi", 1, KeyRun(KeyC1, a), <<>>),
                from_ast("NoChecks", "Multi", 1, KeyRun(KeyC2, b), <<>>),
                from_ast("NoChecks", "Multi", 1, KeyRun(KeyC1, b), <<>>)>>) :
        a \in 1..MaxWide, b \in 1..MaxWide}

\* and_v chains of three and of four fragments, in several nestings
Chains(c) ==
    LET vs == {from_ast(c, "Verify", 0, <<>>, <<x>>) :
                 x \in {from_ast(c, "True", 0, <<>>, <<>>),
                        from_ast(c, "Older", 1, <<>>, <<>>)}}
        bs == {from_ast(c, "True", 0, <<>>, <<>>),
               from_ast(c, "Sha256", 1, <<>>, <<>>)}
        and_v(x, y) == from_ast(c, "AndV", 0, <<>>, <<x, y>>)
    IN  {and_v(x, and_v(y, z)) : x \in vs, y \in vs, z \in bs}
        \cup {and_v(and_v(x, y), z) : x \in vs, y \in vs, z \in bs}
        \cup {and_v(x, and_v(y, and_v(x, z))) : x \in vs, y \in vs, z \in bs}
        \cup {and_v(and_v(x, y), and_v(y, z)) : x \in vs, y \in vs, z \in bs}
        \cup {and_v(and_v(and_v(x, y), x), z) : x \in vs, y \in vs, z \in bs}

\* the script parse reads as an OutputsPref leaf (decode.rs:388-396), alone
\* and under VERIFY (decode.rs:313-323)
PrefStreams ==
    LET pref == Reverse(<<T0("Equal"), T0("Pick")>> \o PrefTail)
        bytes(st) == [i \in 1..Len(st) |->
                        IF st[i].t = "Push" THEN Tk("Push", 1) ELSE st[i]]
    IN  {bytes(pref), bytes(pref) \o <<T0("Verify"), Num(1)>>}

\* the script of one child of a threshold: c:pk_k(pk), bare or under s: or a:
ThreshKid(w, pk) ==
    LET x == <<Pubkey(pk), T0("CheckSig")>> IN
    CASE w = "Swap" -> <<T0("Swap")>> \o x
      [] w = "Alt" -> <<T0("ToAltStack")>> \o x \o <<T0("FromAltStack")>>
      [] OTHER -> x

\* the children of a threshold, in script order: [E] [W] ... [W]
ThreshKidLists ==
    UNION {{[i \in 1..n |-> ThreshKid(IF i = 1 THEN "E" ELSE w[i], pk[i])] :
              w \in [1..n -> {"Swap", "Alt"}], pk \in [1..n -> {KeyC1, KeyC2}]} :
           n \in 1..MaxLen}

\* the children with adds[i] ADD tokens after the i-th, then k EQUAL
ThreshJoin(kids, adds, k) ==
    Concat([i \in 1..Len(kids) |->
               kids[i] \o [j \in 1..adds[i] |-> T0("Add")]])
    \o <<Num(k), T0("Equal")>>

\* [E] ([W] ADD)*: no ADD after the first child, one after every other
WellJoined(n) == [i \in 1..n |-> IF i = 1 THEN 0 ELSE 1]

\* one ADD too many or one too few, at any one child
OffByOne(n) ==
    {a \in [1..n -> 0..2] :
        \E j \in 1..n, d \in {-1, 1} :
            a = [WellJoined(n) EXCEPT ![j] = @ + d]}

\* the threshold scripts [E] ([W] ADD)* k EQUAL
ThreshScripts ==
    UNION {{ThreshJoin(kids, WellJoined(Len(kids)), k) : k \in 1..Len(kids)} :
           kids \in ThreshKidLists}

\* the same scripts with the ADD count off by one
OffByOneScripts ==
    UNION {{ThreshJoin(kids, a, k) :
              k \in 1..Len(kids), a \in OffByOne(Len(kids))} :
           kids \in ThreshKidLists}

\* thresh(1, multi, a:multi, ..., a:multi) over the largest raw multisigs:
\* trees whose leaves are within every size ceiling but Legacy's and whose
\* root grows past the ceilings one after the other
MultiThreshTrees ==
    LET multi == from_ast("NoChecks", "Multi", 1, KeyRun(KeyC1, CmsMaxKeys),
                          <<>>)
        alt == from_ast("NoChecks", "Alt", 0, <<>>, <<multi>>)
    IN  {from_ast("NoChecks", "Thresh", 1, <<>>,
                  [i \in 1..n |-> IF i = 1 THEN multi ELSE alt]) :
            n \in 1..MaxSubs}

MultiThreshScripts == {Encode(t) : t \in MultiThreshTrees}

\* scripts of one production each: the leaves, raw multisig, the a: wrapper,
\* the IF and NOTIF forms, and_b and a threshold
WholeScripts ==
    LET zero == <<Num(0)>>
        one == <<Num(1)>>
        if(t) == <<T0(t)>> \o zero \o <<T0("Else")>> \o one \o <<T0("EndIf")>>
        notif(pre) == pre \o <<T0("NotIf")>> \o zero \o <<T0("EndIf")>>
    IN  {Encode(t) : t \in {x \in AllLeaves("NoChecks") :
                               x \notin {NoNode} /\ x.node # "OutputsPref"}}
        \cup {Reverse(<<T0("Equal"), T0("Pick")>> \o PrefTail)}
        \cup {MultisigScript(2, <<KeyC1, KeyC2>>),
              ThreshKid("Alt", KeyC1),
              if("If"), one \o if("NotIf"),
              <<T0("Dup"), T0("If")>> \o one \o <<T0("EndIf")>>,
              <<T0("Size"), T0("ZeroNotEqual"), T0("If")>> \o one
                 \o <<T0("EndIf")>>,
              notif(zero \o <<T0("IfDup")>>), notif(zero),
              one \o <<T0("ToAltStack")>> \o one
                  \o <<T0("FromAltStack"), T0("BoolAnd")>>,
              ThreshKid("E", KeyC1) \o ThreshKid("Swap", KeyC2)
                 \o <<T0("Add"), Num(1), T0("Equal")>>}

\* the scripts of 1 and of and_v(v:1, 1) behind a token that does not
\* continue a sequence
LeftoverStreams ==
    {<<T0(t)>> \o body :
       t \in {"If", "NotIf", "Else", "ToAltStack"},
       body \in {<<Num(1)>>, <<Num(1), T0("Verify"), Num(1)>>}}

\* the scripts above with one or more tokens missing at the front, where
\* parse reads last
CutScripts ==
    UNION {{SubSeq(st, j, Len(st)) : j \in 2..(Len(st) + 1)} :
             st \in WholeScripts}

\* multisig scripts whose threshold is 0 or above the key count
IllTypedMultis ==
    {MultisigScript(k, <<key>>) : k \in {0, 2}, key \in {KeyC1, KeyU}}

\* two multisigs in sequence, the first of which is not of type V
IllTypedPairs ==
    {MultisigScript(1, KeyRun(KeyC1, n)) \o MultisigScript(1, KeyRun(KeyC2, n)) :
       n \in {1, PairKeys}}

Init ==
    \/ \E c \in Contexts, toks \in ThreshScripts \cup OffByOneScripts :
          ParseEntry(c, FALSE, toks, NoNode)
    \/ \E c \in Contexts, toks \in MultiThreshScripts :
          ParseEntry(c, FALSE, toks, NoNode)
    \/ \E c \in Contexts, toks \in FreeStreams, e \in BOOLEAN :
          /\ e => HasPush(toks)
          /\ ParseEntry(c, e, toks, NoNode)
    \/ \E c \in ProductionContexts : \E t \in Trees(c) :
          ParseEntry(c, FALSE, Encode(t), t)
    \/ \E c \in Contexts, toks \in MultisigStreams :
          ParseEntry(c, FALSE, toks, NoNode)
    \/ \E c \in Contexts, toks \in MultisigKeyStreams :
          ParseEntry(c, FALSE, toks, NoNode)
    \/ \E c \in Contexts : \E t \in WideTrees :
          ParseEntry(c, FALSE, Encode(t), NoNode)
    \/ \E c \in ProductionContexts : \E t \in Chains(c) :
          ParseEntry(c, FALSE, Encode(t), t)
    \/ \E c \in Contexts, toks \in PrefStreams :
          ParseEntry(c, FALSE, toks, NoNode)
    \/ \E c \in Contexts, toks \in OrTailStreams :
          ParseEntry(c, FALSE, toks, NoNode)
    \/ \E c \in Contexts, toks \in HashStreams :
          ParseEntry(c, FALSE, toks, NoNode)
    \/ \E c \in Contexts, toks \in IllTypedMultis \cup IllTypedPairs :
          ParseEntry(c, FALSE, toks, NoNode)
    \/ \E c \in Contexts, toks \in CutScripts \cup LeftoverStreams :
          ParseEntry(c, FALSE, toks, NoNode)

\* a faulty loop condition under which an error does not end the loop
Running_after_error == status \in {"run", "err"}

\* the loop runs until parse returns
Running == status = "run"

Top == non_term[Len(non_term)]
Popped == SubSeq(non_term, 1, Len(non_term) - 1)

\* the tokens a step took from the stream, in reading order
Taken(before, after) ==
    [i \in 1..(Len(before) - Len(after)) |-> Rd(before, i)]

\* a call of TokenIter with the token it returned or was given
Call(op, tok) == [op |-> op, tok |-> tok]

\* the calls of one iteration that began with the tokens toks and had the
\* result r: a next for every token the arm matched, in reading order, then
\* the un_next of the arm if it has one
CallsOf(toks, r) ==
    LET n == Len(toks) - Len(r.toks) + Len(r.back)
    IN  [i \in 1..n |-> Call("next", Rd(toks, i))]
        \o [i \in 1..Len(r.back) |-> Call("un_next", r.back[i])]

\* the tokens put back and not read again after the calls cs of one
\* iteration, out being those outstanding before: every next takes the one
\* put back last, and an arm calls un_next only after all its calls of next
Outstanding(out, cs) ==
    LET nexts == Cardinality({i \in DOMAIN cs : cs[i].op = "next"})
        backs == SelectSeq(cs, LAMBDA x : x.op = "un_next")
        kept == IF nexts >= Len(out) THEN 0 ELSE Len(out) - nexts
    IN  SubSeq(out, 1, kept) \o [i \in 1..Len(backs) |-> backs[i].tok]

\* the effect of one loop iteration with result r: carry on, or return the
\* error (`?`), which drops both stacks
Apply(r) ==
    \E res \in {r} : \E cs \in {CallsOf(tokens, res)} :
        /\ tokens' = res.toks
        /\ consumed' = consumed \o Taken(tokens, res.toks)
        /\ IF IsOk(res.err)
           THEN /\ non_term' = Popped \o res.nt
                /\ term' = res.term
                /\ UNCHANGED <<status, ret>>
           ELSE /\ non_term' = <<>>
                /\ term' = <<>>
                /\ status' = IF res.err.e = "Panic" THEN "panic" ELSE "err"
                /\ ret' = RetErr(res.err)
        /\ calls' = cs
        /\ pushed' = Outstanding(pushed, cs)
        /\ UNCHANGED <<ctx, ext_on, orig, round, cnode, cop, cres, carg, sigs,
                       txin>>

\* `non_term.pop()` yields one of the expectations in nts
Expecting(nts) == Running /\ non_term # <<>> /\ Top.nt \in nts

\* decode.rs:241-251: the extension parser succeeds at Expression position
LoopExt ==
    /\ Expecting({"Expression"})
    /\ ExtLeafAt(ext_on, tokens)
    /\ LET r == reduce0(ctx, term, "Ext", Rd(tokens, 1).v, <<>>, <<>>)
       IN  Apply(R(r.err, Drop(tokens, 1), <<>>, r.term))

\* decode.rs:253-457
LoopExpression ==
    /\ Expecting({"Expression"})
    /\ ~ExtLeafAt(ext_on, tokens)
    /\ Apply(Expression(ctx, tokens, term))

\* decode.rs:458-464
LoopMaybeAndV ==
    /\ Expecting({"MaybeAndV"})
    /\ Apply(MaybeAndV(ctx, tokens, term))

\* decode.rs:465-474
LoopMaybeSwap ==
    /\ Expecting({"MaybeSwap"})
    /\ Apply(MaybeSwap(ctx, tokens, term))

\* decode.rs:475-481
LoopAlt ==
    /\ Expecting({"Alt"})
    /\ Apply(Alt(ctx, tokens, term))

\* decode.rs:482-486
LoopReduce1 ==
    /\ Expecting({"Check", "DupIf", "Verify", "NonZero", "ZeroNotEqual"})
    /\ Apply(Reduce1Arm(ctx, tokens, term, Top.nt))

\* decode.rs:487-494
LoopAndV ==
    /\ Expecting({"AndV"})
    /\ Apply(AndV(ctx, tokens, term))

\* decode.rs:495-498
LoopReduce2 ==
    /\ Expecting({"AndB", "OrB", "OrC", "OrD"})
    /\ Apply(Reduce2Arm(ctx, tokens, term, Top.nt))

\* decode.rs:499-514
LoopTern ==
    /\ Expecting({"Tern"})
    /\ Apply(Tern(ctx, tokens, term))

\* decode.rs:515-528
LoopThreshW ==
    /\ Expecting({"ThreshW"})
    /\ Apply(ThreshW(ctx, tokens, term, Top.k, Top.n))

\* decode.rs:529-535
LoopThreshE ==
    /\ Expecting({"ThreshE"})
    /\ Apply(ThreshE(ctx, tokens, term, Top.k, Top.n))

\* decode.rs:536-555
LoopEndIf ==
    /\ Expecting({"EndIf"})
    /\ Apply(EndIf(ctx, tokens, term))

\* decode.rs:556-566
LoopEndIfNotIf ==
    /\ Expecting({"EndIfNotIf"})
    /\ Apply(EndIfNotIf(ctx, tokens, term))

\* decode.rs:567-578
LoopEndIfElse ==
    /\ Expecting({"EndIfElse"})
    /\ Apply(EndIfElse(ctx, tokens, term))

\* decode.rs:579-588: None => break; the two assertions; Ok(term.pop())
LoopDone ==
    /\ Running /\ non_term = <<>>
    /\ IF Len(term) = 1
       THEN /\ status' = "ok"
            /\ ret' = RetOk(term[1])
            /\ term' = <<>>
       ELSE /\ status' = "panic"
            /\ ret' = RetErr(Err("Panic", Len(term), "assert_eq term.len 1"))
            /\ term' = <<>>
    /\ UNCHANGED <<calls, pushed, ctx, ext_on, tokens, non_term, orig, consumed, round,
                   cnode, cop, cres, carg, sigs, txin>>

\* the caller encodes the tree parse returned and decodes that script again
ReDecode ==
    /\ status = "ok" /\ round = 0
    /\ tokens' = Encode(ret.tree)
    /\ orig' = ret.tree
    /\ non_term' = FullExpr
    /\ term' = <<>>
    /\ status' = "run"
    /\ ret' = NoRet
    /\ consumed' = <<>>
    /\ round' = 1
    /\ calls' = <<>>
    /\ pushed' = <<>>
    /\ UNCHANGED <<ctx, ext_on, cnode, cop, cres, carg, sigs, txin>>

Next ==
    \/ LoopExt
    \/ LoopExpression
    \/ LoopMaybeAndV
    \/ LoopMaybeSwap
    \/ LoopAlt
    \/ LoopReduce1
    \/ LoopAndV
    \/ LoopReduce2
    \/ LoopTern
    \/ LoopThreshW
    \/ LoopThreshE
    \/ LoopEndIf
    \/ LoopEndIfNotIf
    \/ LoopEndIfElse
    \/ LoopDone
    \/ ReDecode

Spec == Init /\ [][Next]_vars

\* one iteration of the loop of parse, whatever the expectation popped
LoopStep ==
    \/ LoopExt
    \/ LoopExpression
    \/ LoopMaybeAndV
    \/ LoopMaybeSwap
    \/ LoopAlt
    \/ LoopReduce1
    \/ LoopAndV
    \/ LoopReduce2
    \/ LoopTern
    \/ LoopThreshW
    \/ LoopThreshE
    \/ LoopEndIf
    \/ LoopEndIfNotIf
    \/ LoopEndIfElse
    \/ LoopDone

\* parse is one uninterrupted synchronous call: while the loop runs, its
\* next iteration is taken
SpecLive == Spec /\ WF_vars(LoopStep)

-----------------------------------------------------------------------------
(* The context functions applied to single nodes.                           *)

\* a typed node as ExtData and Type compute it, not yet context-checked
MsOf(c, node, k, keys, subs) ==
    Ms(node, k, keys, subs, type_check(node, k, keys, subs),
       pk_cost_of(c, node, k, keys, subs))

\* key lists: every short list, and longer runs of one compressed key with
\* one key of any form at either end
KeySeqs ==
    UNION {[1..n -> Keys] : n \in 1..MaxLen}
    \cup {[i \in 1..n |-> IF i = 1 THEN q ELSE KeyC1] :
            n \in 1..MaxKeys, q \in Keys}
    \cup {[i \in 1..n |-> IF i = n THEN q ELSE KeyC1] :
            n \in 1..MaxKeys, q \in Keys}

\* the script sizes at the edges of the ceilings of the contexts
SizeEdges ==
    {MAX_SCRIPT_ELEMENT_SIZE, MAX_SCRIPT_ELEMENT_SIZE + 1,
     MAX_STANDARD_P2WSH_SCRIPT_SIZE, MAX_STANDARD_P2WSH_SCRIPT_SIZE + 1,
     MAX_SCRIPT_SIZE, MAX_SCRIPT_SIZE + 1,
     MAX_BLOCK_WEIGHT, MAX_BLOCK_WEIGHT + 1}

\* a combinator node standing for any script of the given size
Sized(c, size) ==
    LET t == MsOf(c, "True", 0, <<>>, <<>>)
        v == MsOf(c, "Verify", 0, <<>>, <<t>>)
    IN  [MsOf(c, "AndV", 0, <<>>, <<v, t>>) EXCEPT !.pk_cost = size]

CtxNodes(c) ==
    {MsOf(c, "PkK", pk, <<>>, <<>>) : pk \in Keys}
    \cup {MsOf(c, kind, k, ks, <<>>) :
            kind \in {"Multi", "MultiA"}, k \in 1..2, ks \in KeySeqs}
    \cup {MsOf(c, "Ext", e, <<>>, <<>>) : e \in 1..2}
    \cup {[MsOf(c, "Ext", e, <<>>, <<>>) EXCEPT !.pk_cost = size] :
            e \in 1..2, size \in SizeEdges}
    \cup {MsOf(c, l, 1, <<>>, <<>>) : l \in {"PkH", "Older", "Sha256"}}
    \cup {MsOf(c, "True", 0, <<>>, <<>>)}
    \cup {Sized(c, size) : size \in SizeEdges}

\* fragments of every kind: the leaves, the wrappers of the leaves, the
\* trees of up to three nodes, and_or, fragments over children of the
\* kinds Legacy holds malleable, and a check over a choice of keys
KindNodes(c) ==
    LET leaf(l, k) == from_ast(c, l, k, <<>>, <<>>)
        wrap(w, x) == from_ast(c, w, 0, <<>>, <<x>>)
        cpkh == wrap("Check", leaf("PkH", 1))
        dup == wrap("DupIf", wrap("Verify", leaf("True", 0)))
    IN  (AllLeaves(c) \cup WrapOf(c, AllLeaves(c))
         \cup TreesOf(c, 2) \cup TreesOf(c, 3)
         \cup {from_ast(c, "AndOr", 0, <<>>,
                        <<leaf("False", 0), leaf("True", 0), leaf("True", 0)>>),
               from_ast(c, "OrB", 0, <<>>,
                        <<leaf("False", 0), wrap("Alt", leaf("False", 0))>>),
               from_ast(c, "OrC", 0, <<>>,
                        <<leaf("False", 0), wrap("Verify", leaf("True", 0))>>),
               from_ast(c, "Thresh", 1, <<>>,
                        <<leaf("False", 0), wrap("Alt", leaf("False", 0))>>),
               from_ast(c, "OrI", 0, <<>>, <<cpkh, cpkh>>),
               from_ast(c, "AndB", 0, <<>>, <<cpkh, wrap("Alt", dup)>>),
               wrap("Alt", dup), wrap("NonZero", dup),
               wrap("Check", from_ast(c, "OrI", 0, <<>>,
                                      <<leaf("PkK", KeyC1),
                                        leaf("PkK", KeyC1)>>))}) \ {NoNode}

\* a node with its satisfaction-dependent ExtData
WithExt(m, e) ==
    [node |-> m.node, k |-> m.k, keys |-> m.keys, subs |-> m.subs,
     ty |-> m.ty, pk_cost |-> m.pk_cost, ext |-> e]

\* ExtData of a satisfiable node well within every limit
SmallSat == ExtSat(Some(1), Some(<<1, 1>>), Some(1), Some(1))

\* ExtData at the edges of the limits of the local checks
EdgeSats ==
    {ExtSat(ops, sat, stack, exec) :
        ops \in {None, Some(MAX_OPS_PER_SCRIPT), Some(MAX_OPS_PER_SCRIPT + 1)},
        sat \in {None, Some(<<1, MAX_SCRIPTSIG_SIZE>>),
                 Some(<<1, MAX_SCRIPTSIG_SIZE + 1>>),
                 Some(<<MAX_SCRIPTSIG_SIZE + 1, 1>>)},
        stack \in {None, Some(MAX_STANDARD_P2WSH_STACK_ITEMS - 1),
                   Some(MAX_STANDARD_P2WSH_STACK_ITEMS)},
        exec \in {None,
                  Some(MAX_STACK_SIZE - MAX_STANDARD_P2WSH_STACK_ITEMS),
                  Some(MAX_STACK_SIZE - MAX_STANDARD_P2WSH_STACK_ITEMS + 1)}}

\* the nodes of the context with their ExtData: every node within the
\* limits, and the combinator nodes of every size at every edge
ExtNodes(c) ==
    {WithExt(m, SmallSat) :
        m \in {x \in CtxNodes(c) \cup KindNodes(c) : x.ty # TyErr}}
    \cup {WithExt(Sized(c, size), e) : size \in SizeEdges, e \in EdgeSats}

InitCtx ==
    /\ ctx \in Contexts
    /\ cnode \in ExtNodes(ctx)
    /\ cop = "none"
    /\ cres = Ok
    /\ ext_on = FALSE
    /\ calls = <<>> /\ pushed = <<>>
    /\ tokens = <<>>
    /\ non_term = <<>>
    /\ term = <<>>
    /\ status = "idle"
    /\ ret = NoRet
    /\ orig = NoNode
    /\ consumed = <<>>
    /\ round = 0
    /\ carg = NoArg
    /\ sigs = NoSigs
    /\ txin = original_txin

\* no call has been made on cnode yet
Idle == status = "idle" /\ cop = "none"

\* a call of the context function op returns res
Return(op, res) ==
    /\ cop' = op
    /\ cres' = res
    /\ UNCHANGED <<calls, pushed, ctx, ext_on, tokens, non_term, term, status, ret, orig,
                   consumed, round, cnode, carg, sigs, txin>>

CallGlobalConsensus ==
    /\ Idle
    /\ Return("check_global_consensus_validity",
              check_global_consensus_validity(ctx, cnode))

CallGlobalPolicy ==
    /\ Idle
    /\ Return("check_global_policy_validity",
              check_global_policy_validity(ctx, cnode))

CallGlobalValidity ==
    /\ Idle
    /\ Return("check_global_validity", check_global_validity(ctx, cnode))

CallTopLevelTypeCheck ==
    /\ Idle
    /\ Return("top_level_type_check", top_level_type_check(ctx, cnode))

CallNonMalleable ==
    /\ Idle
    /\ Return("check_terminal_non_malleable",
              check_terminal_non_malleable(ctx, cnode))

CallLocalConsensus ==
    /\ Idle
    /\ Return("check_local_consensus_validity",
              check_local_consensus_validity(ctx, cnode))

CallLocalPolicy ==
    /\ Idle
    /\ Return("check_local_policy_validity",
              check_local_policy_validity(ctx, cnode))

CallLocalValidity ==
    /\ Idle
    /\ Return("check_local_validity", check_local_validity(ctx, cnode))

CallTopLevelChecks ==
    /\ Idle
    /\ Return("top_level_checks", top_level_checks(ctx, cnode))

CallMaxSatisfactionSize ==
    /\ Idle
    /\ Return("max_satisfaction_size",
              max_satisfaction_size_result(ctx, cnode))

NextCtx ==
    \/ CallGlobalConsensus
    \/ CallGlobalPolicy
    \/ CallGlobalValidity
    \/ CallTopLevelTypeCheck
    \/ CallNonMalleable
    \/ CallLocalConsensus
    \/ CallLocalPolicy
    \/ CallLocalValidity
    \/ CallTopLevelChecks
    \/ CallMaxSatisfactionSize

SpecCtx == InitCtx /\ [][NextCtx]_vars

-----------------------------------------------------------------------------
(* The context functions that take no node.                                 *)

\* the item counts: few, those that meet MAX_SCRIPTSIG_SIZE with the items
\* above, and those around the two stack-item ceilings
WitnessCounts ==
    {0, 1, 13, 22}
    \cup {MAX_STANDARD_P2WSH_STACK_ITEMS + d : d \in {-1, 0, 1}}
    \cup {MAX_STACK_SIZE + d : d \in {-1, 0, 1}}

\* witnesses of items of one length
Witnesses == {[i \in 1..n |-> len] : n \in WitnessCounts, len \in ItemLens}

InitArg ==
    /\ ctx \in Contexts
    /\ cnode = NoNode
    /\ cop = "none"
    /\ cres = Ok
    /\ carg = NoArg
    /\ sigs = NoSigs
    /\ txin = original_txin
    /\ ext_on = FALSE
    /\ calls = <<>> /\ pushed = <<>>
    /\ tokens = <<>>
    /\ non_term = <<>>
    /\ term = <<>>
    /\ status = "idle"
    /\ ret = NoRet
    /\ orig = NoNode
    /\ consumed = <<>>
    /\ round = 0

\* a call of the context function op on arg returns res
ReturnArg(op, arg, res) ==
    /\ cop' = op
    /\ carg' = arg
    /\ cres' = res
    /\ UNCHANGED <<calls, pushed, ctx, ext_on, tokens, non_term, term, status, ret, orig,
                   consumed, round, cnode, sigs, txin>>

CallCheckWitness ==
    /\ Idle
    /\ \E w \in Witnesses :
          ReturnArg("check_witness", WitnessArg(w), check_witness(ctx, w))

CallPkLen ==
    /\ Idle
    /\ \E pk \in Keys : ReturnArg("pk_len", KeyArg(pk), pk_len(ctx, pk))

NextArg ==
    \/ CallCheckWitness
    \/ CallPkLen

SpecArg == InitArg /\ [][NextArg]_vars

\* the debug context handed every node and every argument
InitNoChecks ==
    /\ ctx = "NoChecks"
    /\ cnode \in ExtNodes(ctx)
    /\ cop = "none"
    /\ cres = Ok
    /\ carg = NoArg
    /\ sigs = NoSigs
    /\ txin = original_txin
    /\ ext_on = FALSE
    /\ calls = <<>> /\ pushed = <<>>
    /\ tokens = <<>>
    /\ non_term = <<>>
    /\ term = <<>>
    /\ status = "idle"
    /\ ret = NoRet
    /\ orig = NoNode
    /\ consumed = <<>>
    /\ round = 0

NextNoChecks ==
    \/ NextCtx
    \/ NextArg

SpecNoChecks == InitNoChecks /\ [][NextNoChecks]_vars

-----------------------------------------------------------------------------
(* The signing of a 2-of-3 multisignature (examples/sign_multisig.rs): the  *)
(* descriptor elwsh(multi(2, key 1, key 2, key 3)), a satisfier that gains  *)
(* signatures one at a time, and satisfy called on the input between them.  *)
(* A signature is known by its length in bytes.                             *)

\* the threshold of the multi of the descriptor
MultiK == 2

\* the length of the witness script the descriptor commits to
explicit_script_len == 105

\* the lengths of an ECDSA signature followed by its sighash byte
SigLens == {71, 72, 73}

\* the inputs satisfy may be handed: the one of the example, and one that
\* carries a scriptSig and a witness already
TxIns ==
    {original_txin,
     [script_sig |-> <<Item("push", 0, 1)>>,
      witness |-> <<Item("push", 0, 1)>>]}

\* Satisfier::lookup_sig over the keys of the multi: the positions of the
\* keys the satisfier holds a signature for
Available(s) == {i \in 1..Len(public_keys) : s[i] # NoSig}

\* Witness::signature: the one-item stack of the signature of key i
Signature(s, i) == Item("sig", i, s[i])

\* a multi that throws no signature away
KeptAll(k, s) == {Available(s)}

\* the signatures a satisfied multi keeps: k of the available ones, the
\* others being thrown away (which ones is left open)
Kept(k, s) ==
    IF Cardinality(Available(s)) < k THEN {Available(s)}
    ELSE {S \in SUBSET Available(s) : Cardinality(S) = k}

\* Satisfaction::satisfy of Terminal::Multi(k, keys): Impossible (None)
\* with fewer than k signatures, otherwise the empty placeholder followed
\* by the kept signatures in the order of the keys
Multi_satisfaction(k, s, kept) ==
    IF Cardinality(Available(s)) < k THEN None
    ELSE LET idx == SelectSeq([i \in 1..Len(public_keys) |-> i],
                              LAMBDA i : i \in kept)
         IN  Some(<<Item("push_0", 0, 0)>>
                  \o [j \in 1..Len(idx) |-> Signature(s, idx[j])])

\* Miniscript::satisfy: the stack of the satisfaction, checked by
\* Ctx::check_witness; CouldNotSatisfy when there is none
Miniscript_satisfy(c, k, s, kept) ==
    LET sat == Multi_satisfaction(k, s, kept)
    IN  IF sat = None
        THEN [err |-> Err("CouldNotSatisfy", 0, ""), stack |-> <<>>]
        ELSE LET w == check_witness(c, [j \in 1..Len(sat[1]) |->
                                           sat[1][j].len])
             IN  IF IsOk(w) THEN [err |-> Ok, stack |-> sat[1]]
                 ELSE [err |-> w, stack |-> <<>>]

\* Wsh::get_satisfaction: the stack of the miniscript with the witness
\* script pushed on it, and an empty scriptSig
get_satisfaction(s, kept) ==
    LET r == Miniscript_satisfy("Segwitv0", MultiK, s, kept)
    IN  IF IsOk(r.err)
        THEN [err |-> Ok,
              witness |-> Append(r.stack,
                                 Item("script", 0, explicit_script_len)),
              script_sig |-> <<>>]
        ELSE [err |-> r.err, witness |-> <<>>, script_sig |-> <<>>]

\* a satisfy that writes what it got whatever the outcome
satisfy_txin_always(r, old) ==
    [script_sig |-> r.script_sig, witness |-> r.witness]

\* DescriptorTrait::satisfy: the input after the call, written only once
\* get_satisfaction has succeeded
satisfy_txin(r, old) ==
    IF IsOk(r.err) THEN [script_sig |-> r.script_sig, witness |-> r.witness]
    ELSE old

InitSign ==
    /\ ctx = "Segwitv0"
    /\ cnode = NoNode
    /\ cop = "none"
    /\ cres = Ok
    /\ carg = NoArg
    /\ sigs = NoSigs
    /\ txin \in TxIns
    /\ ext_on = FALSE
    /\ calls = <<>> /\ pushed = <<>>
    /\ tokens = <<>>
    /\ non_term = <<>>
    /\ term = <<>>
    /\ status = "idle"
    /\ ret = NoRet
    /\ orig = NoNode
    /\ consumed = <<>>
    /\ round = 0

\* sigs.insert(public_keys[i], sig)
InsertSig ==
    /\ \E i \in 1..Len(public_keys), sig \in SigLens :
          sigs' = [sigs EXCEPT ![i] = sig]
    /\ cop' = "insert"
    /\ cres' = Ok
    /\ UNCHANGED <<calls, pushed, ctx, ext_on, tokens, non_term, term, status, ret, orig,
                   consumed, round, cnode, carg, txin>>

\* my_descriptor.satisfy(&mut tx.input[0], &sigs)
Satisfy ==
    /\ \E kept \in Kept(MultiK, sigs) :
          LET r == get_satisfaction(sigs, kept)
          IN  /\ cres' = r.err
              /\ txin' = satisfy_txin(r, txin)
    /\ cop' = "satisfy"
    /\ UNCHANGED <<calls, pushed, ctx, ext_on, tokens, non_term, term, status, ret, orig,
                   consumed, round, cnode, carg, sigs>>

NextSign ==
    \/ InsertSig
    \/ Satisfy

SpecSign == InitSign /\ [][NextSign]_vars

-----------------------------------------------------------------------------
(* Properties of parse, checked under Spec.                                 *)

\* the fragment kind appears somewhere in the tree
RECURSIVE Mentions(_, _)
Mentions(t, kind) ==
    t.node = kind \/ \E i \in 1..Len(t.subs) : Mentions(t.subs[i], kind)

\* C1: whenever parse returns Ok, the correctness base kind of the root it
\* returns is B; a stream that reduces to a root of another kind is an error.
C1_RootKindIsB == status = "ok" => ret.tree.ty.base = "B"

\* C2: every node on the completed-term stack, and the node parse returns,
\* carries a correctness type and passes Ctx::check_global_validity of the
\* context parse runs under.
C2_EveryTermChecked ==
    /\ \A i \in 1..Len(term) :
          /\ term[i].ty # TyErr
          /\ IsOk(check_global_validity(ctx, term[i]))
    /\ status = "ok" => IsOk(check_global_validity(ctx, ret.tree))

\* C3: when the expectation stack is empty and the loop is left, the
\* completed-term stack holds exactly one node, so the final assertions
\* never fail.
C3_ExitHasOneTerm ==
    /\ (status = "run" /\ non_term = <<>>) => Len(term) = 1
    /\ ~(status = "panic" /\ ret.err.b = "assert_eq term.len 1")

\* the loop is left with an AndOr of three multisigs as the only term
C3_Witness ==
    /\ status = "run" /\ non_term = <<>> /\ Len(term) = 1
    /\ term[1].node = "AndOr" /\ tokens = <<>>

C5_NoPartialSuccess ==
    [][/\ status = "err" => UNCHANGED vars
       /\ status' = "err" =>
            /\ ret'.tag = "Err" /\ ret'.err # Ok /\ ret'.tree = NoNode
            /\ term' = <<>> /\ non_term' = <<>>
       /\ status' = "ok" =>
            /\ ret'.tag = "Ok" /\ ret'.err = Ok /\ ret'.tree.ty # TyErr
            /\ term' = <<>> /\ non_term' = <<>>
       /\ status' = "run" => ret' = NoRet]_vars

\* parse failed on a type or context error after reading several tokens,
\* with tokens left unread
C5_Witness ==
    /\ status = "err" /\ tokens # <<>> /\ Len(consumed) >= 2
    /\ ret.err.e \notin {"Unexpected", "UnexpectedStart", "CmsTooManyKeys"}
    /\ ret.tree = NoNode

\* parse is about to read CHECKMULTISIG and the key count
AtMultisig ==
    /\ Expecting({"Expression"}) /\ ~ExtLeafAt(ext_on, tokens)
    /\ Has(tokens, 1, "CheckMultiSig") /\ Has(tokens, 2, "Num")

\* C6: in the raw-multisig production a key count n > 20 makes parse return
\* CmsTooManyKeys(n) in every context having read the two tokens only; a
\* count of 20 or less never gives that error.
C6_CmsCeiling ==
    [][AtMultisig =>
          LET n == Rd(tokens, 2).v
          IN  /\ n > 20 =>
                   /\ status' = "err"
                   /\ ret' = RetErr(Err("CmsTooManyKeys", n, ""))
                   /\ tokens' = Drop(tokens, 2)
                   /\ consumed' = consumed \o <<T0("CheckMultiSig"), Num(n)>>
              /\ n <= 20 => ret'.err.e # "CmsTooManyKeys"]_vars

\* under NoChecks a count of 21 was refused with the keys still unread
C6_Witness ==
    /\ status = "err" /\ ctx = "NoChecks"
    /\ ret.err = Err("CmsTooManyKeys", 21, "")
    /\ \E i \in 1..Len(tokens) : tokens[i].t = "Pubkey"

-----------------------------------------------------------------------------
(* Properties of the context functions, checked under SpecCtx.              *)

OlderContexts == {"Legacy", "Segwitv0", "BareCtx"}

\* the keys a node carries
KeysOf(ms) ==
    CASE ms.node = "PkK" -> <<ms.k>>
      [] ms.node \in {"Multi", "MultiA"} -> ms.keys
      [] OTHER -> <<>>

UsesUncompressed(ms) ==
    \E i \in 1..Len(KeysOf(ms)) : is_uncompressed(KeysOf(ms)[i])
UsesXOnly(ms) == \E i \in 1..Len(KeysOf(ms)) : is_x_only_key(KeysOf(ms)[i])

\* the node with a compressed key in place of each uncompressed one
Compressed(ms) ==
    [ms EXCEPT
        !.k = IF ms.node = "PkK" /\ is_uncompressed(ms.k) THEN KeyC1 ELSE ms.k,
        !.keys = [i \in 1..Len(ms.keys) |->
                    IF is_uncompressed(ms.keys[i]) THEN KeyC1
                    ELSE ms.keys[i]]]

\* C7: a key-carrying fragment the context admits with compressed keys is,
\* with an uncompressed key, rejected by check_global_validity of Segwitv0
\* and of Tap and accepted by that of Legacy and of BareCtx.
C7_UncompressedKeys ==
    (/\ cop = "check_global_validity"
     /\ UsesUncompressed(cnode)
     /\ IsOk(check_global_validity(ctx, Compressed(cnode))))
        => /\ ctx \in {"Segwitv0", "Tap"} => ~IsOk(cres)
           /\ ctx \in {"Legacy", "BareCtx"} => IsOk(cres)

\* check_global_validity of a production context was applied to a PkK or a
\* Multi that uses an x-only key
XOnlyCase ==
    /\ cop = "check_global_validity" /\ ctx \in ProductionContexts
    /\ cnode.node \in {"PkK", "Multi"} /\ UsesXOnly(cnode)

ConsensusCeiling(c) ==
    CASE c = "Legacy" -> MAX_SCRIPT_ELEMENT_SIZE
      [] c = "Tap" -> MAX_BLOCK_WEIGHT
      [] OTHER -> MAX_SCRIPT_SIZE

\* no earlier test of the context decides before the x-only key is met
XOnlyDecides(c, ms) ==
    \/ ms.node = "PkK"
    \/ /\ ms.pk_cost <= ConsensusCeiling(c)
       /\ Len(ms.keys) <= 20
       /\ c = "Segwitv0" =>
            \A i \in 1..Len(ms.keys) :
                is_uncompressed(ms.keys[i]) =>
                    \E j \in 1..(i - 1) : is_x_only_key(ms.keys[j])

KeysLegal(c, ms) ==
    \A i \in 1..Len(ms.keys) :
        /\ ~is_x_only_key(ms.keys[i])
        /\ c = "Segwitv0" => ~is_uncompressed(ms.keys[i])

\* C9, as claimed: Tap rejects every Multi with TaprootMultiDisabled;
\* Legacy, Segwitv0 and BareCtx accept a Multi of 1 to 20 keys legal for the
\* context.
C9_MultiByContext ==
    (cop = "check_global_validity" /\ cnode.node = "Multi") =>
        /\ ctx = "Tap" => cres = Err("TaprootMultiDisabled", 0, "")
        /\ (/\ ctx \in OlderContexts
            /\ Len(cnode.keys) \in 1..20
            /\ KeysLegal(ctx, cnode)) => IsOk(cres)

\* C9, amended: Tap rejects every Multi with TaprootMultiDisabled; Segwitv0
\* and BareCtx accept a Multi of 1 to 20 keys legal for the context; Legacy
\* accepts 1 to 15 keys and rejects 16 to 20 with
\* MaxRedeemScriptSizeExceeded, the script being over 520 bytes.
C9_MultiWithinSize ==
    (cop = "check_global_validity" /\ cnode.node = "Multi") =>
        /\ ctx = "Tap" => cres = Err("TaprootMultiDisabled", 0, "")
        /\ (/\ ctx \in {"Segwitv0", "BareCtx"}
            /\ Len(cnode.keys) \in 1..20
            /\ KeysLegal(ctx, cnode)) => IsOk(cres)
        /\ (/\ ctx = "Legacy"
            /\ Len(cnode.keys) \in 1..15
            /\ KeysLegal(ctx, cnode)) => IsOk(cres)
        /\ (ctx = "Legacy" /\ Len(cnode.keys) \in 16..20)
              => cres = Err("MaxRedeemScriptSizeExceeded", 0, "")

\* Legacy refused a Multi of 16 legal keys for its size
C9_Witness ==
    /\ cop = "check_global_validity" /\ ctx = "Legacy"
    /\ cnode.node = "Multi" /\ Len(cnode.keys) = 16
    /\ KeysLegal(ctx, cnode)
    /\ cres = Err("MaxRedeemScriptSizeExceeded", 0, "")

\* C10, as claimed: check_global_consensus_validity of Legacy, Segwitv0 and
\* BareCtx rejects MultiA with MultiANotAllowed, and that of Tap does not
\* reject it.
C10_MultiAByContext ==
    (cop = "check_global_consensus_validity" /\ cnode.node = "MultiA") =>
        /\ ctx \in OlderContexts => cres = Err("MultiANotAllowed", 0, "")
        /\ ctx = "Tap" => IsOk(cres)

\* the size error of the context
SizeErr(c) ==
    IF c = "Legacy" THEN Err("MaxRedeemScriptSizeExceeded", 0, "")
    ELSE Err("MaxWitnessScriptSizeExceeded", 0, "")

\* C10, amended: check_global_consensus_validity of Legacy, Segwitv0 and
\* BareCtx rejects every MultiA: with MultiANotAllowed when its script is
\* within the context's size ceiling, with the context's size error
\* otherwise (under Legacy from 16 keys on); that of Tap accepts a MultiA
\* within its ceiling.
C10_MultiARejected ==
    (cop = "check_global_consensus_validity" /\ cnode.node = "MultiA") =>
        /\ ctx \in OlderContexts =>
              cres = IF cnode.pk_cost <= ConsensusCeiling(ctx)
                     THEN Err("MultiANotAllowed", 0, "")
                     ELSE SizeErr(ctx)
        /\ (ctx = "Tap" /\ cnode.pk_cost <= ConsensusCeiling(ctx))
              => IsOk(cres)

\* Legacy refused a MultiA of 16 keys for its size, not for its kind
C10_Witness ==
    /\ cop = "check_global_consensus_validity" /\ ctx = "Legacy"
    /\ cnode.node = "MultiA" /\ Len(cnode.keys) = 16
    /\ cres = Err("MaxRedeemScriptSizeExceeded", 0, "")

\* check_global_consensus_validity was applied to an extension leaf
ExtCase ==
    cop = "check_global_consensus_validity" /\ cnode.node = "Ext"

\* C11, as claimed: under Legacy and BareCtx every extension leaf is rejected
\* with ExtensionError; under Segwitv0 an extension leaf within the size
\* ceiling gets the outcome of its own segwit_ctx_checks.
C11_ExtByContext ==
    ExtCase =>
        /\ ctx \in {"Legacy", "BareCtx"} => cres.e = "ExtensionError"
        /\ (ctx = "Segwitv0" /\ cnode.pk_cost <= MAX_SCRIPT_SIZE)
              => cres = segwit_ctx_checks(cnode.k)

\* C11, amended: Legacy and BareCtx reject every extension leaf, with
\* ExtensionError when its script is within the context's size ceiling and
\* with the context's size error otherwise; under Segwitv0 an extension leaf
\* within the ceiling gets the outcome of its own segwit_ctx_checks.
C11_ExtRejected ==
    ExtCase =>
        /\ ctx \in {"Legacy", "BareCtx"} =>
              /\ ~IsOk(cres)
              /\ cres.e = IF cnode.pk_cost <= ConsensusCeiling(ctx)
                          THEN "ExtensionError"
                          ELSE SizeErr(ctx).e
        /\ (ctx = "Segwitv0" /\ cnode.pk_cost <= MAX_SCRIPT_SIZE)
              => cres = segwit_ctx_checks(cnode.k)

\* Segwitv0 refused an extension leaf on the extension's own word, and
\* Segwitv0 is where the outcome is not fixed by the context
C11_Witness ==
    /\ ExtCase /\ ctx = "Segwitv0" /\ cnode.pk_cost <= MAX_SCRIPT_SIZE
    /\ cres.e = "ExtensionError" /\ cres = segwit_ctx_checks(cnode.k)

-----------------------------------------------------------------------------
(* Thresholds, checked under Spec.                                          *)

\* the script parse was given, in script order
Script == tokens \o Reverse(consumed)

\* the ADD tokens parse has consumed
AddsConsumed == Cardinality({i \in 1..Len(consumed) : consumed[i].t = "Add"})

\* the children of the Thresh nodes of a tree beyond the first of each
RECURSIVE Joins(_)
Joins(t) ==
    (IF t.node = "Thresh" THEN Len(t.subs) - 1 ELSE 0)
    + SumSeq([i \in 1..Len(t.subs) |-> Joins(t.subs[i])])

\* C12: parse of a threshold script [E] ([W] ADD)* k EQUAL returns
\* Thresh(k, subs) with one child more than ADD tokens consumed and the
\* children in script order, so that the tree encodes to the script it was
\* read from; every tree parse returns has one ADD consumed per child of a
\* Thresh beyond the first; and a script whose ADD count is off by one is
\* never decoded.
C12_ThreshDecode ==
    /\ status = "ok" => AddsConsumed = Joins(ret.tree)
    /\ (Script \in ThreshScripts /\ status # "run") =>
          /\ status = "ok"
          /\ ret.tree.node = "Thresh"
          /\ ret.tree.k = Script[Len(Script) - 1].v
          /\ Len(ret.tree.subs) = AddsConsumed + 1
          /\ Encode(ret.tree) = Script
    /\ Script \in OffByOneScripts => status # "ok"

\* parse returned a threshold of three children read from two ADD tokens
C12_Witness ==
    /\ status = "ok" /\ Script \in ThreshScripts
    /\ ret.tree.node = "Thresh" /\ Len(ret.tree.subs) = 3 /\ AddsConsumed = 2
    /\ ret.tree.subs[2].node # ret.tree.subs[3].node

-----------------------------------------------------------------------------
(* The composite checks, checked under SpecCtx.                             *)

\* the first error of a sequence of results, Ok if there is none
RECURSIVE FirstError(_)
FirstError(rs) ==
    IF rs = <<>> THEN Ok
    ELSE IF ~IsOk(Head(rs)) THEN Head(rs) ELSE FirstError(Tail(rs))

\* the results of the four checks on cnode, in the order of the composites
FourChecks ==
    <<check_global_consensus_validity(ctx, cnode),
      check_global_policy_validity(ctx, cnode),
      check_local_consensus_validity(ctx, cnode),
      check_local_policy_validity(ctx, cnode)>>

\* C13: check_global_validity returns the first error of the global
\* consensus and global policy checks and Ok if both pass;
\* check_local_validity returns the first error of the four checks (global
\* consensus, global policy, local consensus, local policy) and Ok if all
\* pass; a node check_local_validity accepts, check_global_validity accepts.
C13_Composites ==
    /\ cop = "check_global_validity" =>
          /\ cres = FirstError(SubSeq(FourChecks, 1, 2))
          /\ IsOk(cres) <=> \A i \in 1..2 : IsOk(FourChecks[i])
    /\ cop = "check_local_validity" =>
          /\ cres = FirstError(FourChecks)
          /\ IsOk(cres) <=> \A i \in 1..4 : IsOk(FourChecks[i])
          /\ IsOk(cres) => IsOk(check_global_validity(ctx, cnode))

\* under Segwitv0 a node failed the global policy check and the local
\* consensus check, and check_local_validity returned the former's error
C13_Witness ==
    /\ cop = "check_local_validity" /\ ctx = "Segwitv0"
    /\ IsOk(FourChecks[1]) /\ ~IsOk(FourChecks[2]) /\ ~IsOk(FourChecks[3])
    /\ cres.e = "MaxWitnessScriptSizeExceeded"

-----------------------------------------------------------------------------
(* The two tiers in parse, checked under Spec.                              *)

\* the nodes of a tree
RECURSIVE Nodes(_)
Nodes(t) == {t} \cup UNION {Nodes(t.subs[i]) : i \in 1..Len(t.subs)}

\* every node of t passes the consensus tier of c, and some node fails its
\* policy tier
PolicyOnly(c, t) ==
    /\ \A m \in Nodes(t) : IsOk(check_global_consensus_validity(c, m))
    /\ \E m \in Nodes(t) : ~IsOk(check_global_policy_validity(c, m))

\* the tree a script of MultiThreshScripts encodes
MultiThreshOf(script) ==
    CHOOSE t \in MultiThreshTrees : Encode(t) = script

\* C14: a script all of whose nodes pass the consensus tier of the context,
\* one of them failing its policy tier only, is decoded.  parse has no
\* parameter but the context and the extension type, so this is stated of
\* parse as every caller reaches it.
C14_PolicyOptOut ==
    (/\ status # "run"
     /\ Script \in MultiThreshScripts
     /\ PolicyOnly(ctx, MultiThreshOf(Script))) => status = "ok"

-----------------------------------------------------------------------------
(* Malleability by fragment kind, checked under SpecCtx.                    *)

\* the kind of some child of the fragment is one Legacy holds malleable
HasMalleableChild(m) ==
    \E i \in 1..Len(m.subs) : m.subs[i].node \in {"PkH", "OrI", "DupIf"}

\* C15: check_terminal_non_malleable rejects PkH under Legacy only, with
\* MalleablePkH; under Legacy it rejects OrI and DupIf besides, each with
\* its own error, and accepts every other kind; Segwitv0, Tap, BareCtx and
\* NoChecks accept every kind; the outcome is fixed by the context and the
\* kind of the outermost fragment, whatever its children.
C15_NonMalleable ==
    cop = "check_terminal_non_malleable" =>
        /\ ctx # "Legacy" => IsOk(cres)
        /\ ctx = "Legacy" =>
              cres = CASE cnode.node = "PkH" -> Err("MalleablePkH", 0, "")
                       [] cnode.node = "OrI" -> Err("MalleableOrI", 0, "")
                       [] cnode.node = "DupIf" -> Err("MalleableDupIf", 0, "")
                       [] OTHER -> Ok

\* Legacy accepted a fragment whose child is of a kind it holds malleable
C15_Witness ==
    /\ cop = "check_terminal_non_malleable" /\ ctx = "Legacy"
    /\ cnode.node \notin {"PkH", "OrI", "DupIf"} /\ HasMalleableChild(cnode)
    /\ IsOk(cres)

-----------------------------------------------------------------------------
(* check_witness, checked under SpecArg.                                    *)

\* the items of the witness check_witness was applied to
WitnessItems == Len(carg.v)

\* the answer of a context that counts the items against the ceiling
ItemCeiling(limit) ==
    IF WitnessItems <= limit THEN Ok
    ELSE Err("MaxWitnessItemssExceeded", WitnessItems, ToString(limit))

\* C16, as claimed: Legacy and Segwitv0 accept a witness of at most
\* MAX_STANDARD_P2WSH_STACK_ITEMS items and Tap one of at most
\* MAX_STACK_SIZE items, and reject a longer one with
\* MaxWitnessItemssExceeded carrying the count and the limit.
C16_WitnessItems ==
    cop = "check_witness" =>
        /\ ctx \in {"Legacy", "Segwitv0"} =>
              cres = ItemCeiling(MAX_STANDARD_P2WSH_STACK_ITEMS)
        /\ ctx = "Tap" => cres = ItemCeiling(MAX_STACK_SIZE)

\* C16, amended: Segwitv0 and Tap count the items against
\* MAX_STANDARD_P2WSH_STACK_ITEMS and MAX_STACK_SIZE; Legacy does not count
\* items: it accepts a witness iff the scriptSig made of it is of at most
\* MAX_SCRIPTSIG_SIZE bytes and rejects it with MaxScriptSigSizeExceeded
\* otherwise; BareCtx and NoChecks accept every witness.
C16_WitnessCeilings ==
    cop = "check_witness" =>
        /\ ctx = "Segwitv0" =>
              cres = ItemCeiling(MAX_STANDARD_P2WSH_STACK_ITEMS)
        /\ ctx = "Tap" => cres = ItemCeiling(MAX_STACK_SIZE)
        /\ ctx = "Legacy" =>
              cres = IF scriptsig_len(carg.v) <= MAX_SCRIPTSIG_SIZE THEN Ok
                     ELSE Err("MaxScriptSigSizeExceeded", 0, "")
        /\ ctx \in {"BareCtx", "NoChecks"} => IsOk(cres)

\* Segwitv0 refused a witness of one item over its ceiling, naming both
C16_Witness ==
    /\ cop = "check_witness" /\ ctx = "Segwitv0"
    /\ WitnessItems = MAX_STANDARD_P2WSH_STACK_ITEMS + 1
    /\ cres = Err("MaxWitnessItemssExceeded", WitnessItems,
                  ToString(MAX_STANDARD_P2WSH_STACK_ITEMS))

\* the root of the node is one of the fragments standard in a bare script
BareAllowed ==
    \/ cnode.node = "Check" /\ cnode.subs[1].node \in {"PkK", "PkH"}
    \/ cnode.node = "Multi" /\ Len(cnode.keys) <= 3

\* C17: top_level_checks accepts under BareCtx iff the node is of base B
\* and its root is c:pk_k, c:pk_h or a multi of at most three keys, and
\* under every other context iff the node is of base B; a node of another
\* base is refused with NonTopLevel whatever its root, and a node of base
\* B outside the allow-list of BareCtx with NonStandardBareScript.
C17_TopLevelChecks ==
    cop = "top_level_checks" =>
        /\ IsOk(cres) <=>
              /\ cnode.ty.base = "B"
              /\ ctx = "BareCtx" => BareAllowed
        /\ cnode.ty.base # "B" => cres = Err("NonTopLevel", 0, "")
        /\ (cnode.ty.base = "B" /\ ~IsOk(cres)) =>
              cres = Err("NonStandardBareScript", 0, "")

\* BareCtx refused a node that is neither of base B nor on its allow-list,
\* and the error is the one of the type check
C17_Witness ==
    /\ cop = "top_level_checks" /\ ctx = "BareCtx"
    /\ cnode.ty.base # "B" /\ ~BareAllowed
    /\ cres = Err("NonTopLevel", 0, "")

\* C20: pk_len returns 34 for a compressed and 66 for an uncompressed key
\* under both BareCtx and Legacy, 34 for every key under Segwitv0 and 33
\* for every key under Tap.
C20_PkLen ==
    cop = "pk_len" =>
        /\ ctx \in {"BareCtx", "Legacy"} =>
              cres = Usize(IF is_uncompressed(carg.v) THEN 66 ELSE 34)
        /\ ctx = "Segwitv0" => cres = Usize(34)
        /\ ctx = "Tap" => cres = Usize(33)

-----------------------------------------------------------------------------
(* The signing of the multisignature, checked under SpecSign.               *)

\* the number of keys the satisfier holds a signature for
SigCount == Cardinality(Available(sigs))

\* C18: satisfy called with fewer than 2 signatures, none or one, returns
\* an error and leaves the input as it was before the call.
C18_TooFewSignatures ==
    [][(cop' = "satisfy" /\ SigCount < MultiK)
          => (~IsOk(cres') /\ txin' = txin)]_vars

\* satisfy failed with one signature on an input that carried a scriptSig
\* and a witness, and both are still there
C18_Witness ==
    /\ cop = "satisfy" /\ SigCount = 1
    /\ cres = Err("CouldNotSatisfy", 0, "")
    /\ txin \in TxIns \ {original_txin}

\* the witness is the empty placeholder, two signatures the satisfier
\* holds, in the order of their keys, and the witness script
FourItems ==
    /\ Len(txin.witness) = 4
    /\ txin.witness[1] = Item("push_0", 0, 0)
    /\ \E i, j \in Available(sigs) :
          /\ i < j
          /\ txin.witness[2] = Signature(sigs, i)
          /\ txin.witness[3] = Signature(sigs, j)
    /\ txin.witness[4] = Item("script", 0, explicit_script_len)

\* C19: with two signatures satisfy succeeds and writes a witness of
\* exactly 4 items, the empty placeholder, the two signatures and the
\* witness script; with three signatures it succeeds with exactly 4 items
\* as well, for no more than 2 signatures are placed.
C19_FourItems ==
    (cop = "satisfy" /\ SigCount >= MultiK) =>
        /\ IsOk(cres)
        /\ FourItems
        /\ txin.script_sig = <<>>

\* satisfy succeeded with the signatures of all three keys
C19_Witness ==
    /\ cop = "satisfy" /\ SigCount = 3
    /\ IsOk(cres)
    /\ Len(txin.witness) = 4

-----------------------------------------------------------------------------
(* Termination of parse, checked under SpecLive.                            *)

\* C22: parse terminates on every token stream: the loop, once entered,
\* comes to its end, with a tree, an error or a failed assertion, however
\* many expectations were pushed without a token being consumed.
C22_Terminates == Running ~> ~Running

\* parse returned an and_v over an and_v: MaybeAndV and AndV pushed
\* expectations more than once without consuming a token
C22_Witness ==
    /\ status = "ok"
    /\ ret.tree.node = "AndV"
    /\ \E i \in 1..2 : ret.tree.subs[i].node = "AndV"

-----------------------------------------------------------------------------
(* The depth of the two stacks of parse, checked under Spec.                *)

\* the number of tokens parse was handed: those read and those still unread
InputTokens == Len(consumed) + Len(tokens)

\* C23: at every point of parse the depth of the expectation stack and of
\* the completed-term stack is at most linear in the number of input
\* tokens, 3 * N + 3 for N tokens, however deeply the script nests.
C23_LinearDepth ==
    /\ Len(non_term) <= 3 * InputTokens + 3
    /\ Len(term) <= 3 * InputTokens + 3

\* the expectation stack at its bound of 3 * N + 3 on a stream of which
\* three tokens at least were read, each opening a nested fragment
C23_Witness ==
    /\ Running
    /\ Len(consumed) >= 3
    /\ Len(non_term) = 3 * InputTokens + 3

-----------------------------------------------------------------------------
(* The productions of parse one by one, checked under Spec.                 *)

\* the last term completed
LastTerm == term[Len(term)]

\* the error parse returned is one of match_token!
ParseError ==
    status = "err" /\ ret.err.e \in {"Unexpected", "UnexpectedStart"}

\* C24: after CHECKMULTISIG and the count n the multisig production takes
\* exactly n Pubkey tokens and then one number k, and reduces Multi(k, keys)
\* with the keys in the order of the script; a token that is no key among
\* the n, or no number after them, is a parse error.
C24_MultisigProduction ==
    [][(AtMultisig /\ Rd(tokens, 2).v <= CmsMaxKeys) =>
          LET n == Rd(tokens, 2).v
              first == Len(tokens) - 2 - n
              keys == [i \in 1..n |-> tokens[first + i].v]
          IN  IF /\ first >= 1
                 /\ \A i \in 1..n : tokens[first + i].t = "Pubkey"
                 /\ tokens[first].t = "Num"
              THEN \/ /\ status' = "run"
                      /\ tokens' = SubSeq(tokens, 1, first - 1)
                      /\ term' = Append(term, LastTerm')
                      /\ LastTerm'.node = "Multi"
                      /\ LastTerm'.k = tokens[first].v
                      /\ LastTerm'.keys = keys
                   \/ status' = "err" /\ ~ParseError'
              ELSE ParseError']_vars

\* a multisig of three keys, not all the same, was reduced with its keys in
\* the order of the script, the reverse of the order they were read in
C24_Witness ==
    /\ status = "run" /\ Len(term) = 1 /\ LastTerm.node = "Multi"
    /\ Len(LastTerm.keys) = 3
    /\ LastTerm.keys[1] # LastTerm.keys[3]
    /\ \A i \in 1..3 : consumed[2 + i] = Pubkey(LastTerm.keys[4 - i])

\* the expectations that reduce two terms, and the fragment each builds
BinaryOf(nt) == IF nt = "EndIfElse" THEN "OrI" ELSE nt

\* this step reduces the two last terms to a binary fragment
BinaryStep ==
    /\ Expecting({"AndV", "AndB", "OrB", "OrC", "OrD", "EndIfElse"})
    /\ status' = "run"
    /\ Len(term') = Len(term) - 1

\* C25: every binary reduction (AndV, AndB, OrB, OrC, OrD, OrI) makes the
\* term completed last its first child and the term completed before it
\* its second child, never the other way round; as the tokens are read from
\* the end of the script, the first child is the one written first: the
\* tree parse returns has, by the script documented for each fragment, the
\* script parse has read.
C25_BinaryOrder ==
    [][/\ BinaryStep =>
            /\ LastTerm'.node = BinaryOf(Top.nt)
            /\ LastTerm'.subs = <<term[Len(term)], term[Len(term) - 1]>>
            /\ SubSeq(term', 1, Len(term') - 1)
                  = SubSeq(term, 1, Len(term) - 2)
       /\ (status' = "ok" /\ ~Mentions(ret'.tree, "OutputsPref")) =>
            Encode(ret'.tree) = Reverse(consumed')]_vars

\* IF [A] ELSE [B] ENDIF was read whole and reduced to or_i(A, B) with A
\* and B of different kinds
C25_Witness ==
    /\ status = "run" /\ Len(term) = 1 /\ LastTerm.node = "OrI"
    /\ LastTerm.subs[1].node # LastTerm.subs[2].node
    /\ Reverse(consumed)
         = <<T0("If")>> \o Encode(LastTerm.subs[1]) \o <<T0("Else")>>
           \o Encode(LastTerm.subs[2]) \o <<T0("EndIf")>>

\* how many expectations of the kind nt are pending
Pending(stack, nt) ==
    Cardinality({i \in 1..Len(stack) : stack[i].nt = nt})

\* C26: the ternary reduction pops three terms a (completed last), b and c
\* (completed first) and builds AndOr(a, c, b), so that
\* [X] NOTIF [Z] ELSE [Y] ENDIF decodes to AndOr(X, Y, Z); it is expected
\* only once ENDIF .. ELSE .. NOTIF has been read, while ENDIF .. ELSE .. IF
\* reduces to OrI.
C26_Ternary ==
    [][/\ (Expecting({"Tern"}) /\ status' = "run") =>
            /\ LastTerm'.node = "AndOr"
            /\ LastTerm'.subs = <<term[Len(term)], term[Len(term) - 2],
                                  term[Len(term) - 1]>>
            /\ term' = Append(SubSeq(term, 1, Len(term) - 3), LastTerm')
       /\ Pending(non_term', "Tern") > Pending(non_term, "Tern") =>
            Expecting({"EndIfElse"}) /\ Has(tokens, 1, "NotIf")
       /\ Pending(non_term', "EndIfElse") > Pending(non_term, "EndIfElse") =>
            Expecting({"EndIf"}) /\ Has(tokens, 1, "Else")
       /\ Pending(non_term', "EndIf") > Pending(non_term, "EndIf") =>
            Expecting({"Expression"}) /\ Has(tokens, 1, "EndIf")
       /\ (Expecting({"EndIfElse"}) /\ Has(tokens, 1, "If")
            /\ status' = "run") =>
            /\ LastTerm'.node = "OrI"
            /\ Pending(non_term', "Tern") = Pending(non_term, "Tern")
       /\ (status' = "ok" /\ ret'.tree.node = "AndOr"
            /\ ~Mentions(ret'.tree, "OutputsPref")) =>
            Reverse(consumed')
              = Encode(ret'.tree.subs[1]) \o <<T0("NotIf")>>
                \o Encode(ret'.tree.subs[3]) \o <<T0("Else")>>
                \o Encode(ret'.tree.subs[2]) \o <<T0("EndIf")>>]_vars

\* [X] NOTIF [Z] ELSE [Y] ENDIF was read whole and reduced to
\* andor(X, Y, Z) with Y and Z different
C26_Witness ==
    /\ status = "run" /\ Len(term) = 1 /\ LastTerm.node = "AndOr"
    /\ LastTerm.subs[2] # LastTerm.subs[3]
    /\ Reverse(consumed)
         = Encode(LastTerm.subs[1]) \o <<T0("NotIf")>>
           \o Encode(LastTerm.subs[3]) \o <<T0("Else")>>
           \o Encode(LastTerm.subs[2]) \o <<T0("EndIf")>>

\* the extension leaves among the completed terms
ExtTerms(stack) == Cardinality({i \in 1..Len(stack) : stack[i].node = "Ext"})

\* the extension parser reads a leaf from the token source as it stands
ExtParses == ext_on /\ tokens # <<>> /\ Rd(tokens, 1).t = "Push"

\* C27: the extension parser is tried exactly when the expectation on top
\* is Expression; when it succeeds that Expression is removed and one
\* childless Ext node, typed and accepted by the context, is reduced onto
\* the term stack; when it fails the built-in Expression production runs
\* on the expectation stack as it was.
C27_ExtensionFirst ==
    [][/\ ExtTerms(term') > ExtTerms(term) =>
            Expecting({"Expression"}) /\ ExtParses
       /\ (Expecting({"Expression"}) /\ ExtParses) =>
            \/ /\ status' = "run"
               /\ non_term' = Popped
               /\ tokens' = Drop(tokens, 1)
               /\ term' = Append(term, LastTerm')
               /\ LastTerm'.node = "Ext" /\ LastTerm'.subs = <<>>
               /\ LastTerm'.ty # TyErr
               /\ IsOk(check_global_validity(ctx, LastTerm'))
            \/ status' = "err" /\ ~ParseError'
       /\ (Expecting({"Expression"}) /\ ~ExtParses) =>
            LET r == Expression(ctx, tokens, term)
            IN  IF IsOk(r.err)
                THEN /\ non_term' = Popped \o r.nt
                     /\ term' = r.term
                     /\ tokens' = r.toks
                ELSE ret' = RetErr(r.err)]_vars

\* an extension leaf was reduced at an Expression that MaybeAndV pushed,
\* after another fragment had been read
C27_Witness ==
    /\ status = "run" /\ ext_on
    /\ Len(term) = 2 /\ LastTerm.node = "Ext"
    /\ Len(consumed) >= 2 /\ consumed[Len(consumed)].t = "Push"

\* the tokens that end an and_v sequence
AndVTerminators == {"If", "NotIf", "Else", "ToAltStack"}

\* C28: MaybeAndV only looks ahead and never consumes a token: it pushes
\* AndV and a fresh Expression iff there is a next token and that token is
\* none of IF, NOTIF, ELSE, TOALTSTACK; on a terminator or an exhausted
\* stream it pushes nothing and leaves the term stack and the token source
\* as they were.
C28_MaybeAndV ==
    [][Expecting({"MaybeAndV"}) =>
          /\ status' = "run"
          /\ tokens' = tokens /\ consumed' = consumed
          /\ term' = term
          /\ non_term' =
                IF tokens # <<>> /\ Rd(tokens, 1).t \notin AndVTerminators
                THEN Popped \o <<N0("AndV"), N0("Expression")>>
                ELSE Popped]_vars

\* MaybeAndV met TOALTSTACK and pushed nothing: the expectation under it,
\* Alt, is on top with the token still to be read
C28_Witness ==
    /\ status = "run" /\ non_term # <<>> /\ Top.nt = "Alt"
    /\ Has(tokens, 1, "ToAltStack")
    /\ term # <<>>

\* MaybeSwap on anything but SWAP: nothing is read, pushed or reduced
SwapNoOp ==
    (Expecting({"MaybeSwap"}) /\ ~Has(tokens, 1, "Swap")) =>
        /\ status' = "run"
        /\ tokens' = tokens /\ consumed' = consumed
        /\ term' = term
        /\ non_term' = Popped

\* C29 as stated: on SWAP, MaybeSwap pushes a Swap expectation and a fresh
\* Expression and builds the Swap node only once that expression is
\* complete; on any other token or none it is a no-op.
C29_SwapDeferred ==
    [][/\ (Expecting({"MaybeSwap"}) /\ Has(tokens, 1, "Swap")) =>
            /\ status' = "run"
            /\ term' = term
            /\ non_term' = Popped \o <<N0("Swap"), N0("Expression")>>
       /\ SwapNoOp]_vars

\* C29, amended: on SWAP, MaybeSwap reads the token and at once wraps the
\* term completed last in Swap, then expects MaybeSwap again; no
\* expectation of a Swap combinator and no Expression is pushed, and a
\* wrap the type rules or the context reject ends the parse with that
\* error. On any other token or none it is a no-op.
C29_SwapImmediate ==
    [][/\ (Expecting({"MaybeSwap"}) /\ Has(tokens, 1, "Swap")) =>
            \/ /\ status' = "run"
               /\ tokens' = Drop(tokens, 1)
               /\ LastTerm'.node = "Swap"
               /\ LastTerm'.subs = <<LastTerm>>
               /\ term' = Append(SubSeq(term, 1, Len(term) - 1), LastTerm')
               /\ non_term' = Popped \o <<N0("MaybeSwap")>>
            \/ status' = "err" /\ ~ParseError'
       /\ SwapNoOp]_vars

\* SWAP was read right after an expression and that expression is wrapped
\* already, with MaybeSwap expected once more
C29_Witness ==
    /\ Expecting({"MaybeSwap"})
    /\ consumed # <<>> /\ consumed[Len(consumed)].t = "Swap"
    /\ term # <<>> /\ LastTerm.node = "Swap"

\* C30: EndIfNotIf is expected once ENDIF, an expression and NOTIF have
\* been read, and the next token alone picks the reduction: IFDUP is read
\* and OrD is expected, any other token stays unread and OrC is expected;
\* either way one Expression and nothing else is expected on top of it,
\* the expression parsed for it becomes the first child, and an exhausted
\* stream is a parse error.
C30_OrFlavour ==
    [][/\ Pending(non_term', "EndIfNotIf") > Pending(non_term, "EndIfNotIf") =>
            /\ Expecting({"EndIf"}) /\ Has(tokens, 1, "NotIf")
            /\ consumed # <<>> /\ tokens' = Drop(tokens, 1)
       /\ (Expecting({"EndIfNotIf"}) /\ tokens = <<>>) =>
            ParseError' /\ ret'.err.e = "UnexpectedStart"
       /\ (Expecting({"EndIfNotIf"}) /\ tokens # <<>>) =>
            /\ status' = "run" /\ term' = term
            /\ IF Rd(tokens, 1).t = "IfDup"
               THEN /\ tokens' = Drop(tokens, 1)
                    /\ non_term' = Popped \o <<N0("OrD"), N0("Expression")>>
               ELSE /\ tokens' = tokens
                    /\ non_term' = Popped \o <<N0("OrC"), N0("Expression")>>
       /\ (Expecting({"OrD", "OrC"}) /\ status' = "run") =>
            /\ LastTerm'.node = Top.nt
            /\ LastTerm'.subs = <<term[Len(term)], term[Len(term) - 1]>>
            /\ term' = Append(SubSeq(term, 1, Len(term) - 2), LastTerm')
       /\ (status' = "ok" /\ ret'.tree.node \in {"OrD", "OrC"}
            /\ ~Mentions(ret'.tree, "OutputsPref")) =>
            Reverse(consumed')
              = Encode(ret'.tree.subs[1])
                \o (IF ret'.tree.node = "OrD" THEN <<T0("IfDup")>> ELSE <<>>)
                \o <<T0("NotIf")>> \o Encode(ret'.tree.subs[2])
                \o <<T0("EndIf")>>]_vars

\* [X] IFDUP NOTIF [Z] ENDIF was read whole and reduced to or_d(X, Z)
C30_Witness ==
    /\ status = "run" /\ Len(term) = 1 /\ LastTerm.node = "OrD"
    /\ Reverse(consumed)
         = Encode(LastTerm.subs[1]) \o <<T0("IfDup"), T0("NotIf")>>
           \o Encode(LastTerm.subs[2]) \o <<T0("EndIf")>>

\* parse has returned from its first decoding
Returned == status \in {"ok", "err", "panic"} /\ round = 0

\* the hash opcode fits the length of the hash
Paired(op, h) ==
    IF h.t = "Hash20" THEN op \in {"Hash160", "Ripemd160"}
    ELSE op \in {"Sha256", "Hash256"}

\* C31: the leaves that end in <op> <hash> EQUAL[VERIFY] are told apart by
\* what precedes: DUP HASH160 <h> EQUALVERIFY is the leaf PkH with no Verify
\* over it, SIZE 32 EQUALVERIFY <op> <h> EQUALVERIFY is Verify over the hash
\* leaf and SIZE 32 EQUALVERIFY <op> <h> EQUAL the hash leaf itself; a hash
\* of 20 bytes goes with HASH160 and RIPEMD160 only, one of 32 bytes with
\* SHA256 and HASH256 only, and every other pairing is a parse error.
C31_HashLeaves ==
    Returned =>
      \A op \in HashOps, h \in HashPushes :
        /\ Script = HashScript(<<T0("Dup")>>, op, h, TRUE) =>
              IF op = "Hash160" /\ h.t = "Hash20"
              THEN status = "ok" /\ ret.tree.node = "PkH"
                   /\ ret.tree.k = h.v /\ ret.tree.subs = <<>>
              ELSE ParseError
        /\ Script = HashScript(<<T0("Dup")>>, op, h, FALSE) => ParseError
        /\ Script = HashScript(SizeIs32, op, h, TRUE) =>
              IF Paired(op, h)
              THEN status = "ok" /\ ret.tree.node = "Verify"
                   /\ ret.tree.subs[1].node = op
                   /\ ret.tree.subs[1].k = h.v
              ELSE ParseError
        /\ Script = HashScript(SizeIs32, op, h, FALSE) =>
              IF Paired(op, h)
              THEN status = "ok" /\ ret.tree.node = op
                   /\ ret.tree.k = h.v /\ ret.tree.subs = <<>>
              ELSE ParseError

\* DUP HASH160 <h> EQUALVERIFY was decoded to PkH
C31_Witness ==
    /\ Returned /\ status = "ok" /\ ret.tree.node = "PkH"
    /\ Script = HashScript(<<T0("Dup")>>, "Hash160", Tk("Hash20", 1), TRUE)

\* the script the documentation of Terminal::OutputsPref gives
\* (decode.rs:95-108), with EQUALVERIFY as the two tokens the lexer makes
\* of it
DocumentedPref(pref) ==
    Cat6 \o <<Tk("Push", pref), T0("Swap"), T0("Cat"), T0("Hash256"),
              T0("Depth"), Num(10), T0("Sub"), T0("Pick"), T0("Equal"),
              T0("Verify")>>

\* C32: parse decodes the script documented on Terminal::OutputsPref,
\* CAT CAT CAT CAT CAT CAT <pref> SWAP CAT HASH256 DEPTH <10> SUB PICK
\* EQUALVERIFY, to OutputsPref(pref), here under the Verify that
\* EQUALVERIFY stands for.
C32_DocumentedPrefDecodes ==
    (Returned /\ Script = DocumentedPref(1)) =>
        /\ status = "ok"
        /\ \/ ret.tree.node = "OutputsPref" /\ ret.tree.k = 1
           \/ /\ ret.tree.node = "Verify"
              /\ ret.tree.subs[1].node = "OutputsPref"
              /\ ret.tree.subs[1].k = 1

\* C35: parse never puts back more than one token before it reads again:
\* every un_next follows directly on the next that returned the very token
\* it puts back, so that a next lies between any two un_next calls, and at
\* no time is more than one token put back and not yet read again.
C35_OneTokenBack ==
    /\ Len(pushed) <= 1
    /\ \A i \in 1..Len(calls) :
          calls[i].op = "un_next" =>
             /\ i > 1
             /\ calls[i - 1] = Call("next", calls[i].tok)
    /\ pushed # <<>> =>
          tokens # <<>> /\ Rd(tokens, 1) = pushed[Len(pushed)]

\* an arm read one token, found it was not its own and put it back, with
\* part of the script consumed already
C35_Witness ==
    /\ status = "run" /\ pushed # <<>>
    /\ Len(calls) = 2 /\ calls[2].op = "un_next"
    /\ consumed # <<>>

\* the expectations whose arm begins with a next()
NeedsToken == {"Expression", "Alt", "ThreshW", "EndIf", "EndIfNotIf",
               "EndIfElse"}

\* the tokens the pattern of a leaf takes; the pattern of OutputsPref is not
\* the script of the encoder
PatternLen(m) ==
    IF m.node = "OutputsPref" THEN Len(PrefTail) + 2 ELSE Len(Encode(m))

\* parse returned Error::UnexpectedStart
Exhausted == status = "err" /\ ret.err.e = "UnexpectedStart"

\* C36: when the tokens run out while a production needs one more, parse
\* returns an error: in Expression, Alt, ThreshW, EndIf, EndIfNotIf and
\* EndIfElse on an empty stream, and in the middle of any production, the
\* keys and the threshold of a multisig included, so that a script cut
\* short at the front is never decoded; a leaf is built only from all the
\* tokens of its script, and only MaybeAndV, AndV and MaybeSwap take the
\* end of the stream for a normal case.
C36_Exhaustion ==
    [][/\ (Expecting(NeedsToken) /\ tokens = <<>>) =>
            Exhausted' /\ ret'.tree = NoNode
       /\ (Returned' /\ Script' \in CutScripts) =>
            Exhausted' /\ tokens' = <<>>
       /\ (Expecting({"Expression"}) /\ status' = "run"
            /\ Len(term') = Len(term) + 1) =>
            /\ LastTerm'.subs = <<>>
            /\ Len(tokens) - Len(tokens') >= PatternLen(LastTerm')
       /\ (Expecting({"MaybeAndV", "AndV", "MaybeSwap"}) /\ tokens = <<>>) =>
            /\ ~ParseError'
            /\ tokens' = <<>>]_vars

\* a multisig that announces two keys and holds one: the key was read and
\* the stream ended where the second was due
C36_Witness ==
    /\ Exhausted /\ tokens = <<>>
    /\ Script = <<Pubkey(KeyC2), Num(2), T0("CheckMultiSig")>>

\* the terms the arm of the expectation x pops at once
Pops(x) ==
    CASE x.nt \in {"Alt", "Check", "DupIf", "Verify", "NonZero",
                   "ZeroNotEqual"} -> 1
      [] x.nt = "MaybeSwap" -> IF Has(tokens, 1, "Swap") THEN 1 ELSE 0
      [] x.nt \in {"AndB", "OrB", "OrC", "OrD"} -> 2
      [] x.nt = "AndV" -> IF is_and_v(tokens) THEN 0 ELSE 2
      [] x.nt = "EndIfElse" -> IF Has(tokens, 1, "If") THEN 2 ELSE 0
      [] x.nt = "Tern" -> 3
      [] x.nt = "ThreshE" -> x.n
      [] OTHER -> 0

\* by how much the term stack will have grown once the expectation x and
\* all it pushes are processed
Yield(x) ==
    CASE x.nt = "Expression" -> 1
      [] x.nt \in {"AndV", "AndB", "OrB", "OrC", "OrD", "EndIfElse"} -> -1
      [] x.nt = "Tern" -> -2
      [] x.nt \in {"ThreshW", "ThreshE"} -> 1 - x.n
      [] OTHER -> 0

RECURSIVE YieldOf(_)
YieldOf(stack) ==
    IF stack = <<>> THEN 0 ELSE Yield(Head(stack)) + YieldOf(Tail(stack))

\* C37: every reduction finds the terms it pops, on every token stream:
\* one for reduce1, two for reduce2, three for the ternary reduction and n
\* for ThreshE{n}, so that no pop().unwrap() of parse fails; and every
\* Expression, once it and what it pushed are processed, has added exactly
\* one term, so that the terms on the stack and those still to come always
\* make up the one term parse returns.
C37_EnoughTerms ==
    /\ status # "panic"
    /\ (Running /\ non_term # <<>>) => Len(term) >= Pops(Top)
    /\ Running => Len(term) + YieldOf(non_term) = 1

\* ThreshE is about to pop three terms and finds exactly the three its
\* Expressions have pushed
C37_Witness ==
    /\ Expecting({"ThreshE"}) /\ Top.n = 3 /\ Len(term) = 3

\* C38: when parse returns Ok the token source is exhausted or its next
\* token is one of IF, NOTIF, ELSE, TOALTSTACK, and never any other; such a
\* token left unread is not an error of parse: a script behind one of the
\* four is decoded and returned as Ok with that token still in the source.
C38_LeftoverAtOk ==
    /\ status = "ok" =>
          tokens = <<>> \/ Rd(tokens, 1).t \in AndVTerminators
    /\ (Returned /\ Script \in LeftoverStreams) =>
          /\ status = "ok" /\ Encode(ret.tree) = Tail(Script)
          /\ tokens = <<Script[1]>>

\* parse returned Ok for and_v(v:1, 1) with ELSE left unread
C38_Witness ==
    /\ status = "ok" /\ round = 0 /\ ret.tree.node = "AndV"
    /\ tokens = <<T0("Else")>> /\ Len(consumed) = 3

-----------------------------------------------------------------------------
(* The nesting of a sequence.                                               *)

\* the sub-expressions of a run [X] [Y] [Z] ..., in script order
RECURSIVE Fragments(_)
Fragments(m) ==
    IF m.node = "AndV" THEN Fragments(m.subs[1]) \o Fragments(m.subs[2])
    ELSE <<m>>

\* m is the run frs nested on the first child: AndV(AndV(X, Y), Z)
RECURSIVE LeftNested(_, _)
LeftNested(m, frs) ==
    IF Len(frs) = 1 THEN SameFragment(m, frs[1])
    ELSE /\ m.node = "AndV"
         /\ SameFragment(m.subs[2], frs[Len(frs)])
         /\ LeftNested(m.subs[1], SubSeq(frs, 1, Len(frs) - 1))

\* some AndV of m has an AndV as its second child: AndV(X, AndV(Y, Z))
RECURSIVE RightNested(_)
RightNested(m) ==
    \/ /\ m.node = "AndV" /\ m.subs[2].node = "AndV"
    \/ \E i \in 1..Len(m.subs) : RightNested(m.subs[i])

\* the AndV nodes on the first-child spine of m
RECURSIVE SpineAndVs(_)
SpineAndVs(m) ==
    IF m.node = "AndV" THEN 1 + SpineAndVs(m.subs[1]) ELSE 0

\* C39: the script of a run of m sequenced sub-expressions, however the
\* tree it was encoded from was nested, decodes to the m sub-expressions
\* nested on the first child, with m - 1 AndV nodes on that spine; no tree
\* that parse returns has an AndV as the second child of an AndV.
C39_LeftNested ==
    /\ (status = "ok") => ~RightNested(ret.tree)
    /\ (round = 0 /\ status # "run" /\ orig # NoNode
          /\ Len(Fragments(orig)) >= 3 /\ ~Mentions(orig, "OutputsPref")) =>
          /\ status = "ok"
          /\ LeftNested(ret.tree, Fragments(orig))
          /\ SpineAndVs(ret.tree) = Len(Fragments(orig)) - 1

\* a run of four sub-expressions encoded from AndV(X, AndV(Y, AndV(X, Z)))
\* has been decoded
C39_Witness ==
    /\ round = 0 /\ status = "ok" /\ orig # NoNode
    /\ Len(Fragments(orig)) = 4
    /\ orig.subs[2].node = "AndV" /\ orig.subs[2].subs[2].node = "AndV"
    /\ SpineAndVs(ret.tree) = 3

-----------------------------------------------------------------------------
(* The order of the checks of a reduction.                                  *)

\* the context refuses the node that a reduction is about to build
ContextRejects(c, node, k, keys, subs) ==
    ~IsOk(check_global_validity(c, MsOf(c, node, k, keys, subs)))

\* the two multisigs that parse has built when it reduces an ill-typed pair
PairSubs(c) ==
    <<MsOf(c, "Multi", 1, KeyRun(KeyC1, PairKeys), <<>>),
      MsOf(c, "Multi", 1, KeyRun(KeyC2, PairKeys), <<>>)>>

\* C40: a reduction infers the type of its candidate before it asks the
\* context: a multisig whose threshold is 0 or above its key count is
\* reported as a type error in every context, Tap (which allows no Multi)
\* included, and a sequence of two multisigs of type B is reported as a type
\* error of the and_v, also where the pair is too large for the context; the
\* context's error is reported only for a candidate that typed.
C40_TypeBeforeContext ==
    /\ (Returned /\ Script \in IllTypedMultis) =>
          /\ status = "err" /\ ret.err = TypeError("Multi")
    /\ (Returned /\ Script \in IllTypedPairs /\ ctx # "Tap") =>
          /\ status = "err" /\ ret.err = TypeError("AndV")
    /\ (Returned /\ Script \in IllTypedPairs /\ ctx = "Tap") =>
          /\ status = "err" /\ ret.err = Err("TaprootMultiDisabled", 0, "")

\* parse has returned a type error for two multisigs in sequence that are
\* together larger than a Legacy script
C40_Witness ==
    /\ Returned /\ status = "err" /\ ctx = "Legacy"
    /\ Script \in IllTypedPairs /\ Len(Script) = 2 * (PairKeys + 3)
    /\ ContextRejects("Legacy", "AndV", 0, <<>>, PairSubs("Legacy"))
    /\ ret.err = TypeError("AndV")

-----------------------------------------------------------------------------
(* The limits of the contexts, checked under SpecCtx.                       *)

SizeErrors == {"MaxRedeemScriptSizeExceeded", "MaxWitnessScriptSizeExceeded"}

\* C33: the ceilings on the serialized size are strict: a script larger
\* than the ceiling is rejected and one of exactly the ceiling is not.
\* Legacy tests MAX_SCRIPT_ELEMENT_SIZE and reports
\* MaxRedeemScriptSizeExceeded, Segwitv0 MAX_SCRIPT_SIZE at the consensus
\* tier and MAX_STANDARD_P2WSH_SCRIPT_SIZE at the policy tier, Bare
\* MAX_SCRIPT_SIZE, Tap MAX_BLOCK_WEIGHT and nothing at the policy tier; a
\* script over the ceiling is reported as such whatever its kind and keys.
C33_SizeCeilings ==
    /\ (cop = "check_global_consensus_validity" /\ ctx \in ProductionContexts) =>
          IF cnode.pk_cost > ConsensusCeiling(ctx)
          THEN cres = Err(IF ctx = "Legacy"
                          THEN "MaxRedeemScriptSizeExceeded"
                          ELSE "MaxWitnessScriptSizeExceeded", 0, "")
          ELSE cres.e \notin SizeErrors
    /\ (cop = "check_global_policy_validity" /\ ctx \in ProductionContexts) =>
          IF ctx = "Segwitv0" /\ cnode.pk_cost > MAX_STANDARD_P2WSH_SCRIPT_SIZE
          THEN cres = Err("MaxWitnessScriptSizeExceeded", 0, "")
          ELSE IsOk(cres)

\* Legacy was handed an extension leaf one byte over its ceiling and
\* reported the size, not the kind
C33_Witness ==
    /\ ctx = "Legacy" /\ cop = "check_global_consensus_validity"
    /\ cnode.node = "Ext" /\ cnode.pk_cost = MAX_SCRIPT_ELEMENT_SIZE + 1
    /\ cres.e = "MaxRedeemScriptSizeExceeded"

\* C34: under Legacy, Segwitv0 and Bare check_local_consensus_validity
\* fails, with MaxOpCountExceeded, iff the op count is unknown or greater
\* than MAX_OPS_PER_SCRIPT, a count of exactly the limit being accepted;
\* under Tap the op count is not looked at and the only failure is
\* StackSizeLimitExceeded, raised iff both stack counts are known and their
\* sum is greater than MAX_STACK_SIZE.
C34_LocalConsensus ==
    cop = "check_local_consensus_validity" =>
      LET ops == cnode.ext.ops
          s == cnode.ext.exec_stack_elem_count_sat
          h == cnode.ext.stack_elem_count_sat
      IN  /\ ctx \in {"Legacy", "Segwitv0", "BareCtx"} =>
                IF ops = None \/ ops[1] > MAX_OPS_PER_SCRIPT
                THEN cres = Err("MaxOpCountExceeded", 0, "")
                ELSE IsOk(cres)
          /\ ctx = "Tap" =>
                IF s # None /\ h # None /\ s[1] + h[1] > MAX_STACK_SIZE
                THEN cres.e = "StackSizeLimitExceeded"
                     /\ cres.a = s[1] + h[1]
                ELSE IsOk(cres)

\* a node of exactly MAX_OPS_PER_SCRIPT ops passed the check of Segwitv0
C34_Witness ==
    /\ ctx = "Segwitv0" /\ cop = "check_local_consensus_validity"
    /\ cnode.ext.ops = Some(MAX_OPS_PER_SCRIPT)
    /\ IsOk(cres)

-----------------------------------------------------------------------------
(* The debug context, checked under SpecNoChecks.                           *)

\* the validity checks of a context
ValidityChecks ==
    {"check_global_consensus_validity", "check_global_policy_validity",
     "check_global_validity", "check_local_consensus_validity",
     "check_local_policy_validity", "check_local_validity",
     "check_witness", "check_terminal_non_malleable"}

\* C21: under NoChecks max_satisfaction_size and pk_len never return a
\* value, they panic whatever the argument, while every validity check
\* (global and local, consensus and policy, check_witness, non-malleability)
\* returns Ok whatever the input.
C21_NoChecks ==
    ctx = "NoChecks" =>
        /\ cop \in {"max_satisfaction_size", "pk_len"} => cres.e = "Panic"
        /\ cop \in ValidityChecks => cres = Ok

\* NoChecks panicked on a node whose satisfaction size is known
C21_Witness ==
    /\ ctx = "NoChecks" /\ cop = "max_satisfaction_size"
    /\ cnode.ext.max_sat_size # None
    /\ cres.e = "Panic"

====
